---- MODULE Spec2Model ----
(***************************************************************************)
(* Quarter reconciliation and statement projection of the XBRL extractor   *)
(* (ComprehensiveXBRLExtractor), in its three versions:                    *)
(*   "caterpillar"  src/caterpillar.py                                     *)
(*   "cat2"         src/cat2.py                                            *)
(*   "final"        src/caterpillar_FINAL_WORKING.py                       *)
(*                                                                         *)
(* A DataFrame is a sequence of fact records (row order is kept, because   *)
(* "first", iloc[-1] and keep='first' depend on it).  Dates are day        *)
(* numbers of a 365-day calendar (the modelled fiscal years are not leap   *)
(* years); values are integers.  A missing date is NaT, a missing string   *)
(* is NA.  sort_values is modelled as a stable sort: rows of equal key     *)
(* keep their row order, and both orders of two such rows are reached      *)
(* through the order in which the filings deliver them.                    *)
(***************************************************************************)
EXTENDS Integers, Sequences, FiniteSets, TLC

VARIABLES version, pool, all_facts, df, pc, warnings, sheet, pivot,
          failing, skipped, no_index, wire

vars == <<version, pool, all_facts, df, pc, warnings, sheet, pivot,
          failing, skipped, no_index, wire>>

(***************************************************************************)
(* Bounds of the model.                                                    *)
(***************************************************************************)
MaxFacts == 5

\* The filings of a run whose retrieval or parsing can fail.
MaxFailing == 2

\* The number of filings of a run whose index.json is not served.
MaxNoIndex == 1

(***************************************************************************)
(* Missing values and dates.                                               *)
(***************************************************************************)
NaT == 0
NA == "NA"

CumDays == <<0, 31, 59, 90, 120, 151, 181, 212, 243, 273, 304, 334>>

Date(y, m, d) == y * 365 + CumDays[m] + (d - 1)

Year(d) == d \div 365

IsJan1(d) == d % 365 = 0

\* strftime('%Y-%m-%d') of a date column: its year, month and day of month.
Month(d) == CHOOSE m \in 1..12 :
              /\ CumDays[m] <= d % 365
              /\ m < 12 => d % 365 < CumDays[m + 1]

Strftime(d) == <<Year(d), Month(d), (d % 365) - CumDays[Month(d)] + 1>>

Timedelta == 1

Versions == {"caterpillar", "cat2", "final"}

(***************************************************************************)
(* Python's string order on the tags and segment labels of the model.      *)
(***************************************************************************)
TagOrder ==
  <<"Assets", "DepreciationAndAmortization",
    "DepreciationDepletionAndAmortization",
    "NetCashProvidedByUsedInOperatingActivities",
    "NetCashProvidedByUsedInOperatingActivitiesRestated",
    "Revenues", "RevenuesNetOfInterestExpense", "SalesRevenueNet">>

SegmentOrder ==
  <<"CatMachineryEnergyTransportationMember",
    "Consolidated", "ConstructionIndustriesMember",
    "MachineryEnergyTransportationMember", "OperatingSegmentsMember">>

BizOrder == <<"ConstructionIndustriesMember", "__none__">>

Rank(order, x) == CHOOSE i \in 1..Len(order) : order[i] = x

(***************************************************************************)
(* A fact as extract_facts_from_xbrl and process_filing leave it.          *)
(***************************************************************************)
Fact(tag, value, segment, biz, s, e, i, form, accession) ==
  [tag |-> tag, value |-> value, segment |-> segment, business_segment |-> biz,
   start_date |-> s, end_date |-> e, instant_date |-> i, form |-> form,
   accession |-> accession]

DurQ(tag, value, segment, biz, s, e, acc) ==
  Fact(tag, value, segment, biz, s, e, NaT, "10-Q", acc)

DurK(tag, value, segment, biz, s, e, acc) ==
  Fact(tag, value, segment, biz, s, e, NaT, "10-K", acc)

Inst(tag, value, segment, biz, i, form, acc) ==
  Fact(tag, value, segment, biz, NaT, NaT, i, form, acc)

\* The dates of fiscal year 2023 that the modelled filings report.
Jan1 == Date(2023, 1, 1)
Jan2 == Date(2023, 1, 2)
Mar31 == Date(2023, 3, 31)
Apr1 == Date(2023, 4, 1)
Jun30 == Date(2023, 6, 30)
Jul1 == Date(2023, 7, 1)
Sep30 == Date(2023, 9, 30)
Oct1 == Date(2023, 10, 1)
Dec31 == Date(2023, 12, 31)

\* The first two quarter ends of fiscal year 2024.
Jan1_24 == Date(2024, 1, 1)
Mar31_24 == Date(2024, 3, 31)
Jun30_24 == Date(2024, 6, 30)

CONS == "Consolidated"
MET == "MachineryEnergyTransportationMember"
CI == "ConstructionIndustriesMember"
OPSEG == "OperatingSegmentsMember"
REV == "Revenues"
DDA == "DepreciationDepletionAndAmortization"
ASSETS == "Assets"
DA == "DepreciationAndAmortization"
SRN == "SalesRevenueNet"
RNI == "RevenuesNetOfInterestExpense"
NCO == "NetCashProvidedByUsedInOperatingActivities"
NCOX == "NetCashProvidedByUsedInOperatingActivitiesRestated"
METX == "CatMachineryEnergyTransportationMember"

(***************************************************************************)
(* The facts the filings can deliver, per pool.                            *)
(***************************************************************************)
PoolFlow ==
  { DurK(REV, 1000, CONS, NA, Jan1, Dec31, 4),
    Inst(ASSETS, 5000, CONS, NA, Dec31, "10-K", 4),
    DurQ(REV, 200, CONS, NA, Jan1, Mar31, 1),
    DurQ(REV, 200, CONS, NA, Jan2, Mar31, 1),
    DurQ(REV, 210, CONS, NA, Apr1, Jun30, 2),
    DurQ(REV, 450, CONS, NA, Jan1, Jun30, 2),
    DurQ(REV, 240, CONS, NA, Jul1, Sep30, 3),
    DurQ(REV, 700, CONS, NA, Jan1, Sep30, 3),
    DurK(REV, 400, MET, NA, Jan1, Dec31, 4),
    Inst(ASSETS, 3000, MET, NA, Dec31, "10-K", 4),
    DurQ(REV, 90, MET, NA, Apr1, Jun30, 2),
    DurQ(REV, 300, MET, NA, Jan1, Sep30, 3) }

\* Segment reporting: a tag reported for ConstructionIndustriesMember directly
\* (segment axis) and through OperatingSegmentsMember (consolidation axis first,
\* the business segment second), next to the consolidated cash-flow facts.
PoolSeg ==
  { DurQ(DDA, 200, CONS, NA, Jan1, Mar31, 1),
    DurQ(DDA, 210, CONS, NA, Apr1, Jun30, 2),
    DurQ(DDA, 450, CONS, NA, Jan1, Jun30, 2),
    DurQ(DDA, 20, CI, CI, Jan1, Mar31, 1),
    DurQ(DDA, 21, CI, CI, Apr1, Jun30, 2),
    DurQ(DDA, 45, CI, CI, Jan1, Jun30, 2),
    DurQ(DDA, 70, CI, CI, Jan1, Sep30, 3),
    DurQ(DDA, 99, OPSEG, CI, Apr1, Jun30, 2),
    DurQ(DDA, 77, OPSEG, CI, Jan1, Sep30, 3),
    Inst(ASSETS, 500, CI, CI, Jun30, "10-Q", 2),
    Inst(ASSETS, 555, OPSEG, CI, Jun30, "10-Q", 2),
    DurK(DDA, 100, CI, CI, Jan1, Dec31, 4),
    DurK(DDA, 130, OPSEG, CI, Jan1, Dec31, 4) }

\* Consolidated cash-flow facts in the reporting conventions that meet in one
\* store: a quarter reported again by a later filing (as a comparative), a
\* six-month period that does not begin with the fiscal year, year-to-date
\* facts of two fiscal years, and the same concept under an alternate tag.
PoolMix ==
  { DurK(DDA, 1000, CONS, NA, Jan1, Dec31, 4),
    DurQ(DDA, 200, CONS, NA, Jan2, Mar31, 1),
    DurQ(DDA, 210, CONS, NA, Apr1, Jun30, 2),
    DurQ(DDA, 210, CONS, NA, Apr1, Jun30, 6),
    DurQ(DDA, 460, CONS, NA, Apr1, Sep30, 3),
    DurQ(DDA, 100, CONS, NA, Jan1, Mar31, 1),
    DurQ(DDA, 250, CONS, NA, Jan1, Jun30, 2),
    DurQ(DDA, 120, CONS, NA, Jan1_24, Mar31_24, 5),
    DurQ(DDA, 300, CONS, NA, Jan1_24, Jun30_24, 6),
    DurQ(DA, 33, CONS, NA, Apr1, Jun30, 2),
    DurQ(DA, 35, CONS, NA, Jul1, Sep30, 3) }

\* A short run: the annual filing and the three quarterly filings of one year.
PoolNet ==
  { DurK(REV, 1000, CONS, NA, Jan1, Dec31, 4),
    Inst(ASSETS, 5000, CONS, NA, Dec31, "10-K", 4),
    DurQ(REV, 200, CONS, NA, Jan1, Mar31, 1),
    DurQ(REV, 450, CONS, NA, Jan1, Jun30, 2),
    DurQ(REV, 700, CONS, NA, Jan1, Sep30, 3) }

\* Facts that meet the lines of the statements only through a fallback: a
\* segment label that holds the requested one, a concept name that holds the
\* line's, a cash-flow total under another segment.
PoolTier ==
  { DurQ(REV, 90, MET, NA, Apr1, Jun30, 2),
    DurQ(REV, 95, METX, NA, Jul1, Sep30, 3),
    DurQ(SRN, 97, MET, NA, Jan2, Mar31, 1),
    DurQ(RNI, 77, CONS, NA, Apr1, Jun30, 2),
    DurQ(RNI, 78, MET, NA, Jul1, Sep30, 3),
    DurQ(REV, 200, CONS, NA, Jan2, Mar31, 1),
    DurQ(NCOX, 500, CONS, NA, Jan2, Mar31, 1),
    DurQ(NCO, 510, MET, NA, Apr1, Jun30, 2) }

\* Facts whose context gives no end date, no start date or no date at all, next
\* to the dated facts of the same concepts.
PoolGap ==
  { DurK(REV, 1000, CONS, NA, Jan1, Dec31, 4),
    Fact(REV, 999, CONS, NA, Jan1, NaT, NaT, "10-K", 4),
    Fact(REV, 111, CONS, NA, Jan1, NaT, NaT, "10-Q", 1),
    Fact(REV, 210, CONS, NA, NaT, Jun30, NaT, "10-Q", 2),
    DurQ(REV, 200, CONS, NA, Jan2, Mar31, 1),
    DurQ(DDA, 100, CONS, NA, Jan1, Mar31, 1),
    DurQ(DDA, 250, CONS, NA, Jan1, Jun30, 2),
    Fact(DDA, 50, CONS, NA, Jan1, NaT, NaT, "10-Q", 3) }

\* Annual facts as 10-K filings deliver them: the fiscal year's total again in
\* the next year's filing (as the prior-year comparative), the fourth quarter
\* alone as a duration fact of the 10-K, and a total reported for a business
\* segment under the operating-segments member.
PoolAnnual ==
  { DurK(REV, 1000, CONS, NA, Jan1, Dec31, 4),
    DurK(REV, 1000, CONS, NA, Jan1, Dec31, 7),
    DurQ(REV, 700, CONS, NA, Jan1, Sep30, 3),
    Inst(ASSETS, 5000, CONS, NA, Dec31, "10-K", 4),
    Inst(ASSETS, 5000, CONS, NA, Dec31, "10-K", 7),
    DurK(REV, 300, CONS, NA, Oct1, Dec31, 4),
    DurK(DDA, 130, OPSEG, CI, Jan1, Dec31, 4),
    DurQ(DDA, 40, OPSEG, NA, Jan1, Sep30, 3),
    DurQ(DDA, 99, OPSEG, CI, Jan1, Sep30, 3) }

Pool(name) ==
  CASE name = "flow" -> PoolFlow
    [] name = "annual" -> PoolAnnual
    [] name = "gap" -> PoolGap
    [] name = "tier" -> PoolTier
    [] name = "seg" -> PoolSeg
    [] name = "mix" -> PoolMix
    [] name = "net" -> PoolNet

(***************************************************************************)
(* Stable sort of a sequence by a strict weak order Lt.                    *)
(***************************************************************************)
StableSort(s, Lt(_, _)) ==
  LET n == Len(s)
      before(j, i) == Lt(s[j], s[i]) \/ (~Lt(s[i], s[j]) /\ j < i)
      rank(i) == Cardinality({j \in 1..n : before(j, i)}) + 1
  IN [r \in 1..n |-> s[CHOOSE i \in 1..n : rank(i) = r]]

\* Order of one date column, ascending, missing dates last (na_position='last').
DateLt(a, b) == a # NaT /\ (b = NaT \/ a < b)

\* extract_all_data: sort_values([end_date, tag, segment]).
ExtractLt(a, b) ==
  \/ DateLt(a.end_date, b.end_date)
  \/ /\ a.end_date = b.end_date
     /\ \/ Rank(TagOrder, a.tag) < Rank(TagOrder, b.tag)
        \/ /\ a.tag = b.tag
           /\ Rank(SegmentOrder, a.segment) < Rank(SegmentOrder, b.segment)

RECURSIVE DropDuplicates(_)
DropDuplicates(s) ==
  IF s = <<>> THEN <<>>
  ELSE LET front == DropDuplicates(SubSeq(s, 1, Len(s) - 1))
           last == s[Len(s)]
       IN IF \E k \in 1..Len(front) : front[k] = last THEN front
          ELSE Append(front, last)

\* The DataFrame extract_all_data returns for the collected facts.
ExtractAllDataFrame(v, facts) ==
  LET sorted == StableSort(facts, ExtractLt)
  IN IF v = "caterpillar" THEN DropDuplicates(sorted) ELSE sorted

(***************************************************************************)
(* Generic helpers on sequences.                                           *)
(***************************************************************************)
RECURSIVE SumValues(_)
SumValues(s) == IF s = <<>> THEN 0 ELSE s[1].value + SumValues(Tail(s))

RECURSIVE Flatten(_)
Flatten(ss) == IF ss = <<>> THEN <<>> ELSE ss[1] \o Flatten(Tail(ss))

\* Series.unique(): the values of a column in order of first appearance.
RECURSIVE Unique(_)
Unique(s) ==
  IF s = <<>> THEN <<>>
  ELSE LET front == Unique(SubSeq(s, 1, Len(s) - 1))
           last == s[Len(s)]
       IN IF \E k \in 1..Len(front) : front[k] = last THEN front
          ELSE Append(front, last)

Column(d, col(_)) == [k \in 1..Len(d) |-> col(d[k])]

ColTag(r) == r.tag
ColSegment(r) == r.segment

MaxEndDate(s) ==
  LET ends == {s[k].end_date : k \in 1..Len(s)} \ {NaT}
  IN IF ends = {} THEN NaT ELSE CHOOSE m \in ends : \A e \in ends : e <= m

EndDateLt(a, b) == DateLt(a.end_date, b.end_date)

(***************************************************************************)
(* Q4 calculation: calculate_q4_data and _is_calendar_ytd.                 *)
(***************************************************************************)
\* A period without a start date taken as running from the start of the year.
IsCalendarYtd_NoStartIsYtd(row) ==
  IF row.end_date = NaT THEN FALSE
  ELSE row.start_date = NaT
       \/ (IsJan1(row.start_date) /\ Year(row.start_date) = Year(row.end_date))

IsCalendarYtd(row) ==
  IF row.start_date = NaT \/ row.end_date = NaT THEN FALSE
  ELSE IsJan1(row.start_date) /\ Year(row.start_date) = Year(row.end_date)

\* A form test by substring, as the projections use, in place of IsQuarterlyForm.
IsQuarterlyForm_Contains(form) == form \in {"10-Q", "10-Q (Q4 Calculated)"}

IsQuarterlyForm(form) == form = "10-Q"

IsAnnualForm(form) == form = "10-K"

QuarterlyDf(d) == SelectSeq(d, LAMBDA r : IsQuarterlyForm(r.form))

AnnualDf(d) == SelectSeq(d, LAMBDA r : IsAnnualForm(r.form))

\* UniqueSegments as Consolidated only, in every version.
UniqueSegments_ConsolidatedOnly(v, d) == <<CONS>>

\* unique_segments of the loop: all segments (Consolidated added), or Consolidated only.
UniqueSegments(v, d) ==
  IF v = "final" THEN <<CONS>>
  ELSE LET u == Unique(Column(d, ColSegment))
       IN IF \E k \in 1..Len(u) : u[k] = CONS THEN u ELSE Append(u, CONS)

AnnualSubset(d, tag, segment) ==
  SelectSeq(AnnualDf(d), LAMBDA r : r.tag = tag /\ r.segment = segment)

\* QSubsetBase with the segment test left out.
QSubsetBase_AnySegment(d, tag, segment, fiscal_year_end) ==
  SelectSeq(QuarterlyDf(d), LAMBDA r :
    /\ r.tag = tag
    /\ r.end_date # NaT
    /\ r.end_date > Date(Year(fiscal_year_end) - 1, 12, 31)
    /\ r.end_date <= fiscal_year_end)

\* The quarterly rows of the annual row's tag, segment and fiscal year.
QSubsetBase(d, tag, segment, fiscal_year_end) ==
  SelectSeq(QuarterlyDf(d), LAMBDA r :
    /\ r.tag = tag
    /\ r.segment = segment
    /\ r.end_date # NaT
    /\ r.end_date > Date(Year(fiscal_year_end) - 1, 12, 31)
    /\ r.end_date <= fiscal_year_end)

\* caterpillar.py narrows the rows to the annual row's business_segment when it can.
QSubset(v, d, tag, segment, annual_row) ==
  LET base == QSubsetBase(d, tag, segment, annual_row.end_date)
      biz_seg == annual_row.business_segment
      q_biz == SelectSeq(base, LAMBDA r : r.business_segment = biz_seg)
  IN IF v = "caterpillar" /\ biz_seg # NA /\ q_biz # <<>> THEN q_biz ELSE base

AnyYtd(q_subset) == \E k \in 1..Len(q_subset) : IsCalendarYtd(q_subset[k])

\* Q4Value by one rule only: the sum also with year-to-date rows; the latest row always.
Q4Value_SumAlways(q_subset, annual_total) == annual_total - SumValues(q_subset)

Q4Value_LatestAlways(q_subset, annual_total) ==
  LET sorted == StableSort(q_subset, EndDateLt)
  IN annual_total - sorted[Len(sorted)].value

Q4Value(q_subset, annual_total) ==
  IF AnyYtd(q_subset)
  THEN LET sorted == StableSort(q_subset, EndDateLt)
       IN annual_total - sorted[Len(sorted)].value
  ELSE annual_total - SumValues(q_subset)

Q4BalanceForm == "10-K (Q4)"
Q4FlowForm == "10-Q (Q4 Calculated)"

RowBiz(v, row) == IF v = "caterpillar" THEN row.business_segment ELSE NA

\* The records one annual row adds to q4_records (none or one).
Q4ForAnnual(v, d, tag, segment, annual_row) ==
  IF annual_row.instant_date # NaT
  THEN << Fact(tag, annual_row.value, segment, RowBiz(v, annual_row), NaT, NaT,
               annual_row.instant_date, Q4BalanceForm, annual_row.accession) >>
  ELSE IF annual_row.end_date = NaT THEN <<>>
  ELSE LET q_subset == QSubset(v, d, tag, segment, annual_row)
           q3_end == MaxEndDate(q_subset)
       IN IF q_subset = <<>> THEN <<>>
          ELSE << Fact(tag, Q4Value(q_subset, annual_row.value), segment,
                       RowBiz(v, annual_row),
                       IF q3_end # NaT THEN q3_end + Timedelta ELSE NaT,
                       annual_row.end_date, NaT, Q4FlowForm,
                       annual_row.accession) >>

\* The warning one annual row logs (none or one).
Q4WarningFor(v, d, tag, segment, annual_row) ==
  IF annual_row.instant_date # NaT \/ annual_row.end_date = NaT THEN {}
  ELSE LET q_subset == QSubset(v, d, tag, segment, annual_row)
       IN IF q_subset # <<>> /\ ~AnyYtd(q_subset) /\ Len(q_subset) # 3
          THEN {[tag |-> tag, segment |-> segment,
                 fiscal_year |-> Year(annual_row.end_date),
                 have |-> Len(q_subset)]}
          ELSE {}

\* The (tag, segment, annual row) triples in the order of the three nested loops.
Q4LoopOrder(v, d) ==
  LET tags == Unique(Column(d, ColTag))
      segs == UniqueSegments(v, d)
      perSeg(tag, segment) ==
        LET sub == AnnualSubset(d, tag, segment)
        IN [k \in 1..Len(sub) |-> [tag |-> tag, segment |-> segment, row |-> sub[k]]]
      perTag(tag) == Flatten([j \in 1..Len(segs) |-> perSeg(tag, segs[j])])
  IN Flatten([i \in 1..Len(tags) |-> perTag(tags[i])])

Q4Records(v, d) ==
  LET loop == Q4LoopOrder(v, d)
  IN Flatten([k \in 1..Len(loop) |->
                Q4ForAnnual(v, d, loop[k].tag, loop[k].segment, loop[k].row)])

Q4Warnings(v, d) ==
  LET loop == Q4LoopOrder(v, d)
  IN UNION {Q4WarningFor(v, d, loop[k].tag, loop[k].segment, loop[k].row) :
              k \in 1..Len(loop)}

\* combined.sort_values([end_date, instant_date, tag, segment]).
CombinedLt(a, b) ==
  \/ DateLt(a.end_date, b.end_date)
  \/ /\ a.end_date = b.end_date
     /\ \/ DateLt(a.instant_date, b.instant_date)
        \/ /\ a.instant_date = b.instant_date
           /\ \/ Rank(TagOrder, a.tag) < Rank(TagOrder, b.tag)
              \/ /\ a.tag = b.tag
                 /\ Rank(SegmentOrder, a.segment) < Rank(SegmentOrder, b.segment)

\* The DataFrame calculate_q4_data returns.
CalculateQ4Data(v, d) ==
  LET q4_records == Q4Records(v, d)
  IN IF d = <<>> \/ q4_records = <<>> THEN d
     ELSE StableSort(d \o q4_records, CombinedLt)

(***************************************************************************)
(* Discrete-quarter normalization: _normalize_quarters_to_discrete         *)
(* (caterpillar.py, cat2.py) and make_quarters_discrete (final).           *)
(***************************************************************************)
Contains10Q(form) == form \in {"10-Q", Q4FlowForm}

BizSegKey(v, r) ==
  IF v = "caterpillar" /\ r.business_segment # NA THEN r.business_segment
  ELSE "__none__"

\* A groupby key without the fiscal year.
GroupKey_NoFiscalYear(v, r) == <<r.tag, r.segment, BizSegKey(v, r)>>

\* The groupby key: (tag, segment, _biz_seg_key, fiscal_year).
GroupKey(v, r) == <<r.tag, r.segment, BizSegKey(v, r), Year(r.end_date)>>

\* q.sort_values([tag, segment, _biz_seg_key, fiscal_year, end_date]).
GroupLt(v, a, b) ==
  \/ Rank(TagOrder, a.tag) < Rank(TagOrder, b.tag)
  \/ /\ a.tag = b.tag
     /\ \/ Rank(SegmentOrder, a.segment) < Rank(SegmentOrder, b.segment)
        \/ /\ a.segment = b.segment
           /\ \/ Rank(BizOrder, BizSegKey(v, a)) < Rank(BizOrder, BizSegKey(v, b))
              \/ /\ BizSegKey(v, a) = BizSegKey(v, b)
                 /\ a.end_date < b.end_date

\* Whether the group of row i is differenced: it has a year-to-date member
\* (caterpillar.py), or it has more than one row (cat2.py).
GroupIsDifferenced(v, q, i) ==
  IF v = "cat2"
  THEN \E k \in 1..Len(q) : k # i /\ GroupKey(v, q[k]) = GroupKey(v, q[i])
  ELSE \E k \in 1..Len(q) :
         GroupKey(v, q[k]) = GroupKey(v, q[i]) /\ IsCalendarYtd(q[k])

\* g['value'].diff().fillna(g['value']) on the rows of q, q sorted by group and date.
DiffGroups(v, q) ==
  [i \in 1..Len(q) |->
     IF /\ i > 1
        /\ GroupKey(v, q[i - 1]) = GroupKey(v, q[i])
        /\ GroupIsDifferenced(v, q, i)
     THEN [q[i] EXCEPT !.value = q[i].value - q[i - 1].value]
     ELSE q[i]]

NormalizeQuartersToDiscrete(v, df_quarters) ==
  LET q0 == SelectSeq(df_quarters,
                      LAMBDA r : Contains10Q(r.form) /\ r.end_date # NaT)
      q == StableSort(q0, LAMBDA a, b : GroupLt(v, a, b))
  IN DiffGroups(v, q)

\* make_quarters_discrete of the final version: the frame it returns.
MakeQuartersDiscrete(d) ==
  LET is_real_q(r) == r.form = "10-Q" /\ r.end_date # NaT
      q == SelectSeq(d, is_real_q)
      sorted == StableSort(q, LAMBDA a, b : GroupLt("final", a, b))
      q_discrete == DiffGroups("final", sorted)
      df_non_ytd_10q == SelectSeq(q, LAMBDA r : ~IsCalendarYtd(r))
      df_other == SelectSeq(d, LAMBDA r : ~is_real_q(r))
  IN IF q = <<>> THEN d ELSE df_other \o df_non_ytd_10q \o q_discrete

(***************************************************************************)
(* Statement projection: create_statement_pivot of caterpillar.py and      *)
(* cat2.py.  The statement schema is restricted to the lines whose tags    *)
(* the modelled filings report; a line is (tag_key, base_key,              *)
(* segment_suffix, candidate tags), the split of tag_key at its first '_'  *)
(* being done here.                                                        *)
(***************************************************************************)
NoSuffix == "None"

\* NaN, the empty cell of a pivot table: no value of a fact equals it. It is a
\* number below every value the model computes.
NaN == 0 - 1000000

StatementItems(statement_type) ==
  CASE statement_type = "income" ->
         << [tag_key |-> "Revenues_MET", base_key |-> REV, segment_suffix |-> "MET"],
            [tag_key |-> "Revenues_Total", base_key |-> REV, segment_suffix |-> "Total"] >>
    [] statement_type = "balance" ->
         << [tag_key |-> ASSETS, base_key |-> ASSETS, segment_suffix |-> NoSuffix] >>
    [] statement_type = "cashflow" ->
         << [tag_key |-> DDA, base_key |-> DDA, segment_suffix |-> NoSuffix],
            [tag_key |-> NCO, base_key |-> NCO, segment_suffix |-> NoSuffix] >>

CandidateTags(statement_type, base_key) ==
  CASE statement_type = "income" /\ base_key = REV ->
         <<REV, "SalesRevenueNet", "SalesAndRevenue", "SalesRevenueGoodsNet",
           "SalesRevenueServicesNet",
           "RevenueFromContractWithCustomerExcludingAssessedTax">>
    [] statement_type = "balance" /\ base_key = ASSETS -> <<ASSETS, "AssetsNet">>
    [] statement_type = "cashflow" /\ base_key = DDA ->
         <<DDA, "DepreciationAndAmortization">>
    [] statement_type = "cashflow" /\ base_key = NCO ->
         <<NCO, "NetCashProvidedByUsedInOperatingActivitiesContinuingOperations">>
    [] OTHER -> <<base_key>>

\* cat2.py lists more alternates for the operating cash-flow total.
CandidateTagsOf(v, statement_type, base_key) ==
  IF v = "cat2" /\ statement_type = "cashflow" /\ base_key = NCO
  THEN <<NCO, "NetCashProvidedByUsedInOperatingActivitiesContinuingOperations",
         "NetCashProvidedByUsedInOperatingActivitiesExcludingDiscontinuedOperations",
         "NetCashProvidedByUsedInOperatingActivitiesIncludingDiscontinuedOperations",
         "NetCashProvidedByUsedInOperatingActivitiesIndirectMethod">>
  ELSE CandidateTags(statement_type, base_key)

SegmentMap(segment_suffix) ==
  CASE segment_suffix = "MET" -> MET
    [] segment_suffix = "Total" -> CONS
    [] OTHER -> segment_suffix

\* The lower-cased text of a name of the model, cut where another name of the
\* model can begin or end inside it.
NameWords(name) ==
  CASE name = REV -> <<"revenues">>
    [] name = RNI -> <<"revenues", "netofinterestexpense">>
    [] name = NCO -> <<"netcashprovidedbyusedinoperatingactivities">>
    [] name = NCOX -> <<"netcashprovidedbyusedinoperatingactivities", "restated">>
    [] name = MET -> <<"machineryenergytransportationmember">>
    [] name = METX -> <<"cat", "machineryenergytransportationmember">>
    [] OTHER -> <<name>>

\* str.contains(pattern, case=False): the pattern's text is a slice of the text.
StrContains(text, pattern) ==
  LET t == NameWords(text)
      p == NameWords(pattern)
  IN \E i \in 1..Len(t) :
       i + Len(p) - 1 <= Len(t) /\ SubSeq(t, i, i + Len(p) - 1) = p

\* str.contains(target, case=False) on the segment labels.
SegmentContains(label, target) == StrContains(label, target)

\* str.contains(base_key, case=False) on the tags.
TagContains(tag, base_key) == StrContains(tag, base_key)

DateOf(date_col, r) == IF date_col = "instant_date" THEN r.instant_date ELSE r.end_date

\* pivot_table(index='tag', columns=date_col, values='value', aggfunc='first'),
\* first row: the first value of each date, in row order.
PivotFirst(sub, date_col) ==
  LET dates == {DateOf(date_col, sub[k]) : k \in 1..Len(sub)} \ {NaT}
      first(dt) == CHOOSE k \in 1..Len(sub) :
                     /\ DateOf(date_col, sub[k]) = dt
                     /\ \A j \in 1..(k - 1) : DateOf(date_col, sub[j]) # dt
  IN [dt \in dates |-> sub[first(dt)].value]

\* The rows df_filtered holds when the lines are resolved.
StatementFiltered(v, d, statement_type) ==
  LET date_col == IF statement_type = "balance" THEN "instant_date" ELSE "end_date"
      dated == SelectSeq(d, LAMBDA r : DateOf(date_col, r) # NaT)
      quarterly == SelectSeq(dated, LAMBDA r : Contains10Q(r.form))
      q4_calc == SelectSeq(quarterly, LAMBDA r : r.form = Q4FlowForm)
      q10 == SelectSeq(quarterly, LAMBDA r : r.form # Q4FlowForm)
  IN IF statement_type = "cashflow"
     THEN NormalizeQuartersToDiscrete(v, q10) \o q4_calc
     ELSE quarterly

\* The first candidate tag with rows under the given segment test, or <<>>.
FirstCandidate(df_filtered, cands, SegOk(_)) ==
  LET sub(i) == SelectSeq(df_filtered,
                          LAMBDA r : r.tag = cands[i] /\ SegOk(r.segment))
      hits == {i \in 1..Len(cands) : sub(i) # <<>>}
  IN IF hits = {} THEN <<>>
     ELSE sub(CHOOSE i \in hits : \A j \in hits : i <= j)

\* The operating, investing and financing totals of the cash-flow statement.
IsCfTotal(statement_type, base_key) ==
  /\ statement_type = "cashflow"
  /\ base_key \in {NCO, "NetCashProvidedByUsedInInvestingActivities",
                    "NetCashProvidedByUsedInFinancingActivities"}

SelectedSubset(df_filtered, statement_type, item) ==
  LET cands == CandidateTags(statement_type, item.base_key)
      target == SegmentMap(item.segment_suffix)
      exact == FirstCandidate(df_filtered, cands, LAMBDA sg : sg = target)
      loose == FirstCandidate(df_filtered, cands,
                              LAMBDA sg : SegmentContains(sg, target))
      plain == FirstCandidate(df_filtered, cands, LAMBDA sg : sg \in {CONS, ""})
  IN IF item.segment_suffix = NoSuffix THEN plain
     ELSE IF exact # <<>> THEN exact ELSE loose

\* cat2.py: the same tiers, then any segment for a line without a suffix, then
\* the concept name for the totals of the cash-flow statement.
SelectedSubsetCat2(df_filtered, statement_type, item) ==
  LET cands == CandidateTagsOf("cat2", statement_type, item.base_key)
      target == SegmentMap(item.segment_suffix)
      exact == FirstCandidate(df_filtered, cands, LAMBDA sg : sg = target)
      loose == FirstCandidate(df_filtered, cands,
                              LAMBDA sg : SegmentContains(sg, target))
      plain == FirstCandidate(df_filtered, cands, LAMBDA sg : sg \in {CONS, ""})
      any == FirstCandidate(df_filtered, cands, LAMBDA sg : TRUE)
      selected == IF item.segment_suffix = NoSuffix
                  THEN IF plain # <<>> THEN plain ELSE any
                  ELSE IF exact # <<>> THEN exact ELSE loose
      sub == SelectSeq(df_filtered, LAMBDA r : TagContains(r.tag, item.base_key))
      sub_pref == SelectSeq(sub, LAMBDA r : r.segment \in {CONS, ""})
  IN IF selected = <<>> /\ IsCfTotal(statement_type, item.base_key)
     THEN IF sub_pref # <<>> THEN sub_pref ELSE sub
     ELSE selected

\* pv.iloc[0].to_dict(): the pivot table's index is sorted by tag, and the row
\* is that of the first tag, over every date column; NaN where it has no value.
PivotIloc0(sub, date_col) ==
  LET tags == {sub[k].tag : k \in 1..Len(sub)}
      first_tag == CHOOSE t \in tags :
                     \A u \in tags : Rank(TagOrder, t) <= Rank(TagOrder, u)
      dates == {DateOf(date_col, sub[k]) : k \in 1..Len(sub)} \ {NaT}
      ofTag == PivotFirst(SelectSeq(sub, LAMBDA r : r.tag = first_tag), date_col)
  IN [dt \in dates |-> IF dt \in DOMAIN ofTag THEN ofTag[dt] ELSE NaN]

\* The sorted date columns of the result (sorted(date_cols)).
SortedDates(dates) ==
  LET n == Cardinality(dates)
  IN [r \in 1..n |-> CHOOSE dt \in dates :
                       Cardinality({e \in dates : e < dt}) = r - 1]

Reversed(s) == [k \in 1..Len(s) |-> s[Len(s) + 1 - k]]

\* sorted(date_cols, reverse=True) of cat2.py and of the final version.
SortedDatesDescending(dates) == Reversed(SortedDates(dates))

\* The order create_statement_pivot gives the date columns, per version.
StatementDateColumns(v, dates) ==
  IF v = "caterpillar" THEN SortedDates(dates) ELSE SortedDatesDescending(dates)

\* The date columns of the rows collected in pivot_data.
DateKeys(pivot_data) ==
  UNION {DOMAIN pivot_data[k].cells : k \in 1..Len(pivot_data)}

EmptyTable == [rows |-> <<>>, columns |-> <<>>, labels |-> <<>>]

\* The result frame: the rows, the date columns in the given order, and the
\* labels the columns get.
TableOf(pivot_data, columns) ==
  IF pivot_data = <<>> THEN EmptyTable
  ELSE [rows |-> pivot_data,
        columns |-> columns,
        labels |-> [k \in 1..Len(columns) |-> Strftime(columns[k])]]

CreateStatementPivot(v, d, statement_type) ==
  LET date_col == IF statement_type = "balance" THEN "instant_date" ELSE "end_date"
      dated == SelectSeq(d, LAMBDA r : DateOf(date_col, r) # NaT)
      df_filtered == StatementFiltered(v, d, statement_type)
      items == StatementItems(statement_type)
      rowOf(item) ==
        LET sub == IF v = "cat2"
                   THEN SelectedSubsetCat2(df_filtered, statement_type, item)
                   ELSE SelectedSubset(df_filtered, statement_type, item)
        IN IF sub = <<>> THEN <<>>
           ELSE << [Line_Item |-> item.tag_key, cells |-> PivotIloc0(sub, date_col)] >>
      pivot_data == Flatten([k \in 1..Len(items) |-> rowOf(items[k])])
  IN IF d = <<>> \/ dated = <<>> THEN EmptyTable
     ELSE TableOf(pivot_data, StatementDateColumns(v, DateKeys(pivot_data)))

StatementTypes == {"income", "balance", "cashflow"}

(***************************************************************************)
(* Segment projection: create_segment_pivot and _extract_discrete_quarters *)
(* of caterpillar.py.                                                      *)
(***************************************************************************)
DiscreteMaxDays == 100

PeriodDays(r) == r.end_date - r.start_date

\* The rows of s at the indices in I, in row order.
RowsAt(s, I) ==
  LET n == Cardinality(I)
  IN [r \in 1..n |-> s[CHOOSE i \in I : Cardinality({j \in I : j < i}) = r - 1]]

\* drop_duplicates(subset=..., keep='first') for the subset given by Key.
DropDuplicatesBy(s, Key(_)) ==
  RowsAt(s, {i \in 1..Len(s) : \A j \in 1..(i - 1) : Key(s[j]) # Key(s[i])})

ExtractDiscreteQuarters(flow_df) ==
  LET q == SelectSeq(flow_df, LAMBDA r : r.start_date # NaT /\ r.end_date # NaT)
      discrete_df == SelectSeq(q, LAMBDA r : PeriodDays(r) <= DiscreteMaxDays)
      ytd_df == SelectSeq(q, LAMBDA r : ~(PeriodDays(r) <= DiscreteMaxDays))
      discrete_keys == {<<discrete_df[k].tag, discrete_df[k].end_date>> :
                          k \in 1..Len(discrete_df)}
      ytd_needed == SelectSeq(ytd_df,
                              LAMBDA r : <<r.tag, r.end_date>> \notin discrete_keys)
  IN IF flow_df = <<>> \/ q = <<>> THEN flow_df
     ELSE IF discrete_df # <<>>
          THEN IF ytd_needed # <<>>
               THEN discrete_df \o NormalizeQuartersToDiscrete("caterpillar", ytd_needed)
               ELSE discrete_df
          ELSE NormalizeQuartersToDiscrete("caterpillar", ytd_df)

SegmentItems == <<REV, ASSETS, DDA>>

\* _get_segment_tag_candidates, for the canonical tags that have alternates.
SegmentTagAlternates ==
  << [canonical |-> REV,
      alternates |-> <<"RevenueFromContractWithCustomerExcludingAssessedTax",
                       "SalesRevenueNet">>] >>

InstantTags == {ASSETS}

\* One step of the remapping loop: the rows of alt_tag become canonical where the
\* canonical tag has no row, or no row of the same end date.
RemapAlternate(seg_df, canonical, alt_tag) ==
  LET has_canon == \E k \in 1..Len(seg_df) : seg_df[k].tag = canonical
      canon_dates == {seg_df[k].end_date : k \in {j \in 1..Len(seg_df) :
                                                    seg_df[j].tag = canonical}} \ {NaT}
  IN [k \in 1..Len(seg_df) |->
        IF seg_df[k].tag = alt_tag
           /\ (~has_canon \/ seg_df[k].end_date \notin canon_dates)
        THEN [seg_df[k] EXCEPT !.tag = canonical]
        ELSE seg_df[k]]

RECURSIVE RemapAlternates(_, _, _)
RemapAlternates(seg_df, canonical, alts) ==
  IF alts = <<>> THEN seg_df
  ELSE RemapAlternates(RemapAlternate(seg_df, canonical, alts[1]), canonical, Tail(alts))

RECURSIVE RemapCandidates(_, _)
RemapCandidates(seg_df, table) ==
  IF table = <<>> THEN seg_df
  ELSE RemapCandidates(
         RemapAlternates(seg_df, table[1].canonical, table[1].alternates),
         Tail(table))

\* SrcPriority with the two priorities swapped.
SrcPriority_Swapped(r, segment_member) == IF r.segment = segment_member THEN 1 ELSE 0

SrcPriority(r, segment_member) == IF r.segment = segment_member THEN 0 ELSE 1

\* The rows left after the source-priority sort and the two drop_duplicates.
SegmentDeduplicated(d, segment_member) ==
  LET seg_df == SelectSeq(d, LAMBDA r : r.segment = segment_member
                                        \/ r.business_segment = segment_member)
      remapped == RemapCandidates(DropDuplicates(seg_df), SegmentTagAlternates)
      quarterly == SelectSeq(remapped, LAMBDA r : Contains10Q(r.form))
      sorted == StableSort(quarterly,
                  LAMBDA a, b : SrcPriority(a, segment_member)
                                  < SrcPriority(b, segment_member))
      unified == [k \in 1..Len(sorted) |-> [sorted[k] EXCEPT !.segment = segment_member]]
      dedup1 == DropDuplicatesBy(unified,
                  LAMBDA r : <<r.tag, r.start_date, r.end_date, r.instant_date, r.form>>)
  IN DropDuplicatesBy(dedup1,
       LAMBDA r : <<r.tag, r.value, r.start_date, r.end_date, r.instant_date>>)

\* seg_df when the pivot rows are built: instant rows, then the flow rows.
SegmentFrame(d, segment_member) ==
  LET seg_df == SegmentDeduplicated(d, segment_member)
      instant_df == SelectSeq(seg_df, LAMBDA r : r.tag \in InstantTags)
      flow_df == SelectSeq(seg_df, LAMBDA r : r.tag \notin InstantTags)
      q4_calc == SelectSeq(flow_df, LAMBDA r : r.form = Q4FlowForm)
      q10 == SelectSeq(flow_df, LAMBDA r : r.form # Q4FlowForm)
  IN instant_df \o ExtractDiscreteQuarters(q10) \o q4_calc

CreateSegmentPivot(d, segment_member) ==
  LET seg_df == SegmentFrame(d, segment_member)
      rowOf(tag_key) ==
        LET date_col == IF tag_key \in InstantTags THEN "instant_date" ELSE "end_date"
            sub == SelectSeq(seg_df, LAMBDA r : r.tag = tag_key)
            dated == SelectSeq(sub, LAMBDA r : DateOf(date_col, r) # NaT)
            one == DropDuplicatesBy(dated, LAMBDA r : <<r.tag, DateOf(date_col, r)>>)
        IN IF one = <<>> THEN <<>>
           ELSE << [Line_Item |-> tag_key, cells |-> PivotFirst(one, date_col)] >>
      pivot_data == Flatten([k \in 1..Len(SegmentItems) |-> rowOf(SegmentItems[k])])
  IN TableOf(pivot_data, SortedDates(DateKeys(pivot_data)))

(***************************************************************************)
(* create_statement_pivot of the final version: every candidate tag of a   *)
(* line is selected at once, and the row is the first row of the pivot     *)
(* table, whose index is sorted by tag.                                    *)
(***************************************************************************)
StatementItemsFinal(statement_type) ==
  CASE statement_type = "income" ->
         << [tag_key |-> "Revenues_MET", base_key |-> REV, segment_suffix |-> "MET"],
            [tag_key |-> REV, base_key |-> REV, segment_suffix |-> NoSuffix] >>
    [] statement_type = "balance" ->
         << [tag_key |-> ASSETS, base_key |-> ASSETS, segment_suffix |-> NoSuffix] >>
    [] statement_type = "cashflow" ->
         << [tag_key |-> DDA, base_key |-> DDA, segment_suffix |-> NoSuffix],
            [tag_key |-> NCO, base_key |-> NCO, segment_suffix |-> NoSuffix] >>

CandidateTagsFinal(statement_type, base_key) ==
  CASE statement_type = "income" /\ base_key = REV ->
         <<REV, "SalesRevenueNet", "SalesAndRevenue", "SalesRevenueGoodsNet",
           "SalesRevenueServicesNet",
           "RevenueFromContractWithCustomerExcludingAssessedTax">>
    [] statement_type = "balance" /\ base_key = ASSETS -> <<ASSETS, "TotalAssets">>
    [] statement_type = "cashflow" /\ base_key = DDA ->
         <<DDA, DA, "DepreciationAmortizationAndAccretionNet">>
    [] statement_type = "cashflow" /\ base_key = NCO ->
         <<NCO, "NetCashProvidedByUsedInOperatingActivitiesContinuingOperations">>
    [] OTHER -> <<base_key>>

SubsetFinal(df_filtered, statement_type, item) ==
  LET cands == CandidateTagsFinal(statement_type, item.base_key)
      isin(tag) == \E i \in 1..Len(cands) : cands[i] = tag
      target == SegmentMap(item.segment_suffix)
      exact == SelectSeq(df_filtered, LAMBDA r : isin(r.tag) /\ r.segment = target)
      loose == SelectSeq(df_filtered,
                         LAMBDA r : isin(r.tag) /\ SegmentContains(r.segment, target))
      weak == SelectSeq(df_filtered,
                        LAMBDA r : TagContains(r.tag, item.base_key)
                                   /\ r.segment = target)
      plain == SelectSeq(df_filtered,
                         LAMBDA r : isin(r.tag) /\ r.segment \in {CONS, ""})
      plainWeak == SelectSeq(df_filtered,
                             LAMBDA r : TagContains(r.tag, item.base_key)
                                        /\ r.segment \in {CONS, ""})
  IN IF item.segment_suffix = NoSuffix
     THEN IF plain # <<>> THEN plain ELSE plainWeak
     ELSE IF exact # <<>> THEN exact ELSE IF loose # <<>> THEN loose ELSE weak

\* pivot_row.iloc[0].to_dict(): the row of the tag that sorts first, over every
\* date column of the pivot table; NaN where that tag has no value.
PivotRowFinal(subset, date_col) ==
  LET one == DropDuplicatesBy(subset, LAMBDA r : <<r.tag, DateOf(date_col, r)>>)
      tags == {one[k].tag : k \in 1..Len(one)}
      first_tag == CHOOSE t \in tags :
                     \A u \in tags : Rank(TagOrder, t) <= Rank(TagOrder, u)
      dates == {DateOf(date_col, one[k]) : k \in 1..Len(one)}
      ofTag == PivotFirst(SelectSeq(one, LAMBDA r : r.tag = first_tag), date_col)
  IN [dt \in dates |-> IF dt \in DOMAIN ofTag THEN ofTag[dt] ELSE NaN]

\* df_filtered of a segment statement of the final version: the quarterly
\* rows, without the rows of annual filings and without the calculated Q4 rows.
SegmentStatementFilteredFinal(d) ==
  LET dated == SelectSeq(d, LAMBDA r : r.end_date # NaT)
      quarterly == SelectSeq(dated, LAMBDA r : Contains10Q(r.form))
      no_annual == SelectSeq(quarterly,
                             LAMBDA r : r.form \notin {"10-K", Q4BalanceForm})
  IN SelectSeq(no_annual, LAMBDA r : r.form # Q4FlowForm)

CreateStatementPivotFinal(d, statement_type) ==
  LET date_col == IF statement_type = "balance" THEN "instant_date" ELSE "end_date"
      dated == SelectSeq(d, LAMBDA r : DateOf(date_col, r) # NaT)
      df_filtered == SelectSeq(dated, LAMBDA r : Contains10Q(r.form))
      items == StatementItemsFinal(statement_type)
      rowOf(item) ==
        LET subset == SubsetFinal(df_filtered, statement_type, item)
        IN IF subset = <<>> THEN <<>>
           ELSE << [Line_Item |-> item.tag_key,
                    cells |-> PivotRowFinal(subset, date_col)] >>
      pivot_data == Flatten([k \in 1..Len(items) |-> rowOf(items[k])])
  IN IF d = <<>> \/ dated = <<>> THEN EmptyTable
     ELSE TableOf(pivot_data, StatementDateColumns("final", DateKeys(pivot_data)))

SegmentMembers == {CI}

\* The sets of filings the archive may fail to serve in a run.
FailingSets(filings) == {S \in SUBSET filings : Cardinality(S) <= MaxFailing}

\* The sets of filings whose index.json the archive does not serve with
\* status 200 in a run.
NoIndexSets(filings) == {S \in SUBSET filings : Cardinality(S) <= MaxNoIndex}

InitEnv(name, failing_sets, no_index_sets) ==
  /\ version \in Versions
  /\ pool = name
  /\ all_facts = <<>>
  /\ df = <<>>
  /\ pc = "extract"
  /\ warnings = {}
  /\ sheet = "none"
  /\ pivot = <<>>
  /\ failing \in failing_sets
  /\ skipped = {}
  /\ no_index \in no_index_sets
  /\ wire = <<>>

InitPool(name, failing_sets) == InitEnv(name, failing_sets, {{}})

\* The requests and pacing delays of one call of process_filing, in order.
\* caterpillar.py and cat2.py list the filing's folder (index.json, and the
\* folder itself when index.json does not come with status 200) and download
\* the instance; the final version downloads the instance from a constructed
\* URL. time.sleep follows a request only when the request succeeded; a failed
\* filing is one whose instance download ends with an HTTP error.
FilingEvents(v, index_missing, failed) ==
  LET listing == IF index_missing THEN <<"GET", "GET", "sleep">>
                 ELSE <<"GET", "sleep">>
      download == IF failed THEN <<"GET">> ELSE <<"GET", "sleep">>
  IN IF v = "final" THEN download ELSE listing \o download

\* The last event on the wire before a call; get_all_filings has returned
\* after its request and its delay when the first filing is processed.
LastEvent(w) == IF w = <<>> THEN "sleep" ELSE w[Len(w)]

\* What process_filing returns: the filing's facts, or the empty list when the
\* instance is not found, the download fails or the parse fails.
ProcessFilingFacts(f, failed) == IF failed THEN <<>> ELSE <<f>>

\* A failed filing that ends the run with its exception.
AfterFailedFiling_Raised == "raised"

\* Where extract_all_data stands after a filing that failed: in its loop.
AfterFailedFiling == "extract"

\* One pass of the loop of extract_all_data: process_filing on the next filing,
\* its facts appended to all_facts.
ProcessFiling ==
  /\ pc = "extract"
  /\ Len(all_facts) + Cardinality(skipped) < MaxFacts
  /\ \E f \in Pool(pool) \ skipped :
       /\ \A k \in 1..Len(all_facts) : all_facts[k] # f
       /\ all_facts' = StableSort(all_facts \o ProcessFilingFacts(f, f \in failing),
                                  ExtractLt)
       /\ skipped' = IF f \in failing THEN skipped \cup {f} ELSE skipped
       /\ wire' = <<LastEvent(wire)>>
                    \o FilingEvents(version, f \in no_index, f \in failing)
       /\ pc' = IF f \in failing THEN AfterFailedFiling ELSE "extract"
  /\ UNCHANGED <<version, pool, df, warnings, sheet, pivot, failing, no_index>>

\* get_all_filings re-raises a failed request: extract_all_data and
\* export_to_excel end with the exception, before any filing is processed.
GetAllFilingsRaises ==
  /\ pc = "extract"
  /\ all_facts = <<>> /\ skipped = {}
  /\ pc' = "raised"
  /\ wire' = Append(wire, "GET")
  /\ UNCHANGED <<version, pool, all_facts, df, warnings, sheet, pivot,
                 failing, skipped, no_index>>

\* A request of get_all_filings, get_filing_items or download_file that the
\* archive never answers: requests.get is called without a timeout and waits.
RequestNeverAnswered ==
  /\ pc = "extract"
  /\ pc' = "blocked"
  /\ wire' = Append(wire, "GET")
  /\ UNCHANGED <<version, pool, all_facts, df, warnings, sheet, pivot,
                 failing, skipped, no_index>>

\* extract_all_data returns the sorted (and, in caterpillar.py, deduplicated) frame.
ExtractAllData ==
  /\ pc = "extract"
  /\ df' = ExtractAllDataFrame(version, all_facts)
  /\ pc' = IF df' = <<>> THEN "done" ELSE "calculate_q4"
  /\ UNCHANGED <<version, pool, all_facts, warnings, sheet, pivot, failing, skipped, no_index, wire>>

\* export_to_excel: df = self.calculate_q4_data(df).
CalculateQ4 ==
  /\ pc = "calculate_q4"
  /\ df' = CalculateQ4Data(version, df)
  /\ warnings' = warnings \cup Q4Warnings(version, df)
  /\ pc' = IF version = "final" THEN "make_discrete" ELSE "project"
  /\ UNCHANGED <<version, pool, all_facts, sheet, pivot, failing, skipped, no_index, wire>>

\* export_to_excel of the final version: df = self.make_quarters_discrete(df).
MakeDiscrete ==
  /\ pc = "make_discrete"
  /\ df' = MakeQuartersDiscrete(df)
  /\ pc' = "project"
  /\ UNCHANGED <<version, pool, all_facts, warnings, sheet, pivot, failing, skipped, no_index, wire>>

\* export_to_excel: one of the statement sheets is projected from df.
StatementPivot ==
  /\ pc = "project"
  /\ \E statement_type \in StatementTypes :
       /\ sheet' = statement_type
       /\ pivot' = IF version = "final"
                   THEN CreateStatementPivotFinal(df, statement_type)
                   ELSE CreateStatementPivot(version, df, statement_type)
  /\ pc' = "projected"
  /\ UNCHANGED <<version, pool, all_facts, df, warnings, failing, skipped, no_index, wire>>

\* export_to_excel of caterpillar.py: one of the segment sheets is projected.
SegmentPivot ==
  /\ pc = "project"
  /\ version = "caterpillar"
  /\ \E segment_member \in SegmentMembers :
       /\ sheet' = segment_member
       /\ pivot' = CreateSegmentPivot(df, segment_member)
  /\ pc' = "projected"
  /\ UNCHANGED <<version, pool, all_facts, df, warnings, failing, skipped, no_index, wire>>

Next ==
  \/ GetAllFilingsRaises
  \/ RequestNeverAnswered
  \/ ProcessFiling
  \/ ExtractAllData
  \/ CalculateQ4
  \/ MakeDiscrete
  \/ StatementPivot
  \/ SegmentPivot

Init == InitPool("flow", {{}})

InitSeg == InitPool("seg", {{}})

InitMix == InitPool("mix", {{}})

InitNet == InitPool("net", FailingSets(PoolNet))

InitTier == InitPool("tier", {{}})

InitGap == InitPool("gap", {{}})

InitAnnual == InitPool("annual", {{}})

InitPace == InitEnv("net", FailingSets(PoolNet), NoIndexSets(PoolNet))

\* The pipeline over the consolidated and per-segment flow facts of one fiscal year.
Spec == Init /\ [][Next]_vars

\* The pipeline over the segment-reporting facts.
SpecSeg == InitSeg /\ [][Next]_vars

\* The pipeline over cash-flow facts of mixed reporting conventions.
SpecMix == InitMix /\ [][Next]_vars

\* The pipeline over facts that reach the statement lines through a fallback.
SpecTier == InitTier /\ [][Next]_vars

\* The pipeline over the annual facts of repeated and partial periods.
SpecAnnual == InitAnnual /\ [][Next]_vars

\* The pipeline over facts with missing period data.
SpecGap == InitGap /\ [][Next]_vars

\* The pipeline over a short run in which filings fail.
SpecNet == InitNet /\ [][Next]_vars

\* The same run, where the archive may also not serve a filing's index.json.
SpecPace == InitPace /\ [][Next]_vars

\* The same run, with every step that can be taken eventually taken.
SpecLive == InitNet /\ [][Next]_vars /\ WF_vars(Next)

(***************************************************************************)
(* Properties.                                                             *)
(***************************************************************************)
Rows(d) == {d[k] : k \in 1..Len(d)}

Raw == Rows(all_facts)

\* df is the frame calculate_q4_data returned.
Q4Done ==
  \/ pc = "make_discrete"
  \/ pc \in {"project", "projected"} /\ version # "final"

\* A duration of at most 100 days; a period beginning on 1 January of its end year.
SpansOneQuarter(r) ==
  r.start_date # NaT /\ r.end_date # NaT /\ r.end_date - r.start_date <= 100

StartsFiscalYear(r) ==
  r.start_date # NaT /\ r.end_date # NaT
  /\ r.start_date = Date(Year(r.end_date), 1, 1)

AnnualFlows == {a \in Raw : a.form = "10-K" /\ a.instant_date = NaT /\ a.end_date # NaT}

\* The raw 10-Q facts of an annual fact's tag, segment and fiscal year.
QuartersOf(a) ==
  {r \in Raw : /\ r.form = "10-Q" /\ r.tag = a.tag /\ r.segment = a.segment
               /\ r.end_date # NaT /\ Year(r.end_date) = Year(a.end_date)
               /\ r.end_date <= a.end_date}

RECURSIVE SumOf(_)
SumOf(S) == IF S = {} THEN 0 ELSE LET x == CHOOSE y \in S : TRUE
                                  IN x.value + SumOf(S \ {x})

\* The synthesized Q4 flow records of an annual fact's group.
Q4FlowsOf(a) ==
  {r \in Rows(df) : /\ r.form = "10-Q (Q4 Calculated)" /\ r.tag = a.tag
                    /\ r.segment = a.segment /\ r.end_date = a.end_date}

\* Three discrete quarters Q1, Q2, Q3, one per quarter, Q1 from the first day of the year.
ThreeDiscreteQuarters(S) ==
  /\ Cardinality(S) = 3
  /\ \A r \in S : SpansOneQuarter(r)
  /\ \A r, t \in S : r # t => r.end_date # t.end_date
  /\ \E r \in S : StartsFiscalYear(r) /\ \A t \in S : r.end_date <= t.end_date

\* C1: for every (tag, segment, fiscal year) with a 10-K duration fact of value A
\* and exactly three discrete 10-Q quarters Q1, Q2, Q3 summing to S, the
\* synthesized '10-Q (Q4 Calculated)' record of the group has value A - S.
C1_FlowIdentity ==
  (Q4Done /\ version = "caterpillar") =>
    \A a \in AnnualFlows :
      ThreeDiscreteQuarters(QuartersOf(a)) =>
        \A r \in Q4FlowsOf(a) : r.value = a.value - SumOf(QuartersOf(a))

\* The facts of the scenario: Revenues 1000 for the year, Q1 = 200 to 03-31,
\* Q2 = 450 and Q3 = 700 from 01-01 to 06-30 and 09-30.
ScenarioAnnual == DurK(REV, 1000, CONS, NA, Jan1, Dec31, 4)

ScenarioStore ==
  /\ ScenarioAnnual \in Raw
  /\ \E q1 \in {DurQ(REV, 200, CONS, NA, Jan1, Mar31, 1),
                DurQ(REV, 200, CONS, NA, Jan2, Mar31, 1)} :
       QuartersOf(ScenarioAnnual)
         = {q1, DurQ(REV, 450, CONS, NA, Jan1, Jun30, 2),
                DurQ(REV, 700, CONS, NA, Jan1, Sep30, 3)}

ValuesOf(s) == [k \in 1..Len(s) |-> s[k].value]

\* The quarter series of a tag and segment that the cash-flow projection works on.
QuarterSeries(tag, segment) ==
  ValuesOf(StableSort(
    SelectSeq(StatementFiltered(version, df, "cashflow"),
              LAMBDA r : r.tag = tag /\ r.segment = segment),
    EndDateLt))

\* C2: in the scenario the synthesized Q4 flow record has value 1000 - 700 = 300
\* and the quarter series after normalization, with the Q4 record, is
\* [200, 250, 250, 300] in end-date order.
C2_Scenario ==
  (pc = "projected" /\ sheet = "cashflow" /\ version # "final" /\ ScenarioStore) =>
    /\ \E r \in Q4FlowsOf(ScenarioAnnual) : TRUE
    /\ \A r \in Q4FlowsOf(ScenarioAnnual) : r.value = 300
    /\ QuarterSeries(REV, CONS) = <<200, 250, 250, 300>>

C2_Witness ==
  pc = "projected" /\ sheet = "cashflow" /\ version = "caterpillar" /\ ScenarioStore

\* C3: for every 10-K fact with an instant date the output holds a Q4 balance
\* record (form '10-K (Q4)') of the same tag, segment, value and instant date.
C3_BalanceCarryForward ==
  (Q4Done /\ version \in {"caterpillar", "cat2"}) =>
    \A a \in Raw :
      (a.form = "10-K" /\ a.instant_date # NaT) =>
        \E r \in Rows(df) :
          /\ r.form = "10-K (Q4)"
          /\ r.tag = a.tag /\ r.segment = a.segment
          /\ r.value = a.value /\ r.instant_date = a.instant_date

C3_Witness ==
  /\ Q4Done /\ version \in {"caterpillar", "cat2"}
  /\ \E a \in Raw : a.form = "10-K" /\ a.instant_date # NaT /\ a.segment = MET
  /\ \E a \in Raw : a.form = "10-K" /\ a.instant_date # NaT /\ a.segment = CONS

\* The (tag, segment, fiscal year) groups of the raw 10-Q facts.
QuarterGroup(r) ==
  {t \in Raw : /\ t.form = "10-Q" /\ t.end_date # NaT /\ t.tag = r.tag
               /\ t.segment = r.segment /\ Year(t.end_date) = Year(r.end_date)}

AlreadyDiscrete(S) ==
  /\ \A r \in S : SpansOneQuarter(r)
  /\ \A r \in S : r.end_date <= Date(Year(r.end_date), 3, 31) => StartsFiscalYear(r)
  /\ \A r, t \in S : r # t => r.end_date # t.end_date

\* The 10-Q rows after normalization: in the cash-flow projection, or in df
\* once make_quarters_discrete has run.
NormalizedRows ==
  IF version = "final" THEN {r \in Rows(df) : r.form = "10-Q"}
  ELSE {r \in Rows(StatementFiltered(version, df, "cashflow")) : r.form = "10-Q"}

NormalizationDone ==
  \/ version = "final" /\ pc \in {"project", "projected"}
  \/ version # "final" /\ pc = "projected" /\ sheet = "cashflow"

\* C4: normalizing an already-discrete series is a no-op: the normalized rows
\* of a group in which each fact spans a single quarter are the group's records,
\* each with its value unchanged.
C4_DiscreteNoOp ==
  NormalizationDone =>
    \A r \in Raw :
      (r.form = "10-Q" /\ r.end_date # NaT /\ AlreadyDiscrete(QuarterGroup(r))) =>
        /\ r \in NormalizedRows
        /\ \A t \in NormalizedRows :
             ( /\ t.tag = r.tag /\ t.segment = r.segment /\ t.end_date # NaT
               /\ Year(t.end_date) = Year(r.end_date) ) => t \in QuarterGroup(r)

\* The cell of a line and a date column in the projected table.
HasCell(line, dt) ==
  \E k \in 1..Len(pivot.rows) :
    pivot.rows[k].Line_Item = line /\ dt \in DOMAIN pivot.rows[k].cells

CellValue(line, dt) ==
  LET k == CHOOSE j \in 1..Len(pivot.rows) :
             pivot.rows[j].Line_Item = line /\ dt \in DOMAIN pivot.rows[j].cells
  IN pivot.rows[k].cells[dt]

\* Among the given 10-Q facts, the discrete facts of a tag and end date, and
\* whether a year-to-date fact of more than a quarter exists next to them.
DiscreteFacts(S, tag, e) ==
  {r \in S : r.form = "10-Q" /\ r.tag = tag /\ r.end_date = e /\ SpansOneQuarter(r)}

HasYtdFact(S, tag, e) ==
  \E y \in S : /\ y.form = "10-Q" /\ y.tag = tag /\ y.end_date = e
               /\ StartsFiscalYear(y) /\ ~SpansOneQuarter(y)

DiscreteWins(S, tag, line) ==
  \A e \in {r.end_date : r \in S} \ {NaT} :
    (DiscreteFacts(S, tag, e) # {} /\ HasYtdFact(S, tag, e)) =>
      /\ HasCell(line, e)
      /\ CellValue(line, e) \in {r.value : r \in DiscreteFacts(S, tag, e)}

\* C5: when a discrete fact and a year-to-date fact exist for the same tag and
\* end date, the projected value of that tag and period is the discrete fact's
\* value, in the segment projection and in the cash-flow statement.
C5_DiscretePrecedence ==
  /\ (pc = "projected" /\ sheet \in SegmentMembers) =>
       DiscreteWins({r \in Raw : r.segment = sheet \/ r.business_segment = sheet},
                    DDA, DDA)
  /\ (pc = "projected" /\ sheet = "cashflow" /\ version = "caterpillar") =>
       DiscreteWins({r \in Raw : r.segment = CONS}, DDA, DDA)

RestrictSeg(d, segment) == SelectSeq(d, LAMBDA r : r.segment = segment)

OfSegment(S, segment) == {r \in S : r.segment = segment}

\* C6: the records produced for a segment depend only on the input facts of
\* that segment (they are the records produced from the store restricted to
\* the segment), and the facts of the other segments are left as they are, in
\* calculate_q4_data and in the normalization of the quarters.
C6_SegmentIsolation ==
  /\ Q4Done =>
       /\ Raw \subseteq Rows(df)
       /\ \A sg \in {r.segment : r \in Raw} :
            OfSegment(Rows(df), sg)
              = OfSegment(Rows(CalculateQ4Data(version, RestrictSeg(all_facts, sg))), sg)
  /\ (version # "final" /\ pc = "projected" /\ sheet = "cashflow") =>
       \A sg \in {r.segment : r \in Raw} :
         OfSegment(Rows(StatementFiltered(version, df, "cashflow")), sg)
           = OfSegment(Rows(StatementFiltered(version, RestrictSeg(df, sg),
                                              "cashflow")), sg)

C6_Witness ==
  /\ pc = "projected" /\ sheet = "cashflow" /\ version = "caterpillar"
  /\ \E a \in AnnualFlows :
       /\ a.segment = CONS /\ Q4FlowsOf(a) # {}
       /\ \E r \in QuartersOf(a) : StartsFiscalYear(r) /\ ~SpansOneQuarter(r)
  /\ \E r \in Raw : r.segment = MET /\ r.form = "10-Q" /\ r.tag = REV

ReconcileDone ==
  \/ version # "final" /\ Q4Done
  \/ version = "final" /\ pc \in {"project", "projected"}

\* C7: reconciliation only adds records: its output holds every raw input
\* record unchanged, and every other record of the output is a synthesized one.
C7_OnlyAdds ==
  ReconcileDone =>
    /\ Raw \subseteq Rows(df)
    /\ \A r \in Rows(df) \ Raw : r.form \in {"10-K (Q4)", "10-Q (Q4 Calculated)"}

\* C8: every record calculate_q4_data adds has a form other than '10-Q' and
\* '10-K'; applied to its own output it derives the Q4 records and warnings of
\* the raw facts again and nothing from a synthesized record; the cash-flow
\* normalization leaves the '10-Q (Q4 Calculated)' records as they are.
C8_NoReprocessing ==
  /\ Q4Done =>
       /\ \A r \in Rows(df) \ Raw : r.form \notin {"10-Q", "10-K"}
       /\ Rows(Q4Records(version, df)) = Rows(df) \ Raw
       /\ Q4Warnings(version, df) = warnings
  /\ (version # "final" /\ pc = "projected" /\ sheet = "cashflow") =>
       SelectSeq(StatementFiltered(version, df, "cashflow"),
                 LAMBDA r : r.form = "10-Q (Q4 Calculated)")
         = SelectSeq(df, LAMBDA r : r.form = "10-Q (Q4 Calculated)")

C8_Witness ==
  /\ pc = "projected" /\ sheet = "cashflow" /\ version = "caterpillar"
  /\ \E r \in Rows(df) : r.form = "10-Q (Q4 Calculated)"
  /\ \E r \in Rows(df) : r.form = "10-K (Q4)"
  /\ \E r \in Raw : r.form = "10-Q" /\ StartsFiscalYear(r) /\ ~SpansOneQuarter(r)

DegradedQ1 == DurQ(REV, 200, CONS, NA, Jan1, Mar31, 1)
DegradedQ2 == DurQ(REV, 210, CONS, NA, Apr1, Jun30, 2)

DegradedQ4_NoneFromJan1 ==
  Q4Done =>
    \A a \in AnnualFlows :
      LET q == QuartersOf(a)
      IN ( /\ version # "final" \/ a.segment = CONS
           /\ Cardinality(q) \in {1, 2}
           /\ \A r \in q : SpansOneQuarter(r) /\ ~StartsFiscalYear(r) ) =>
           /\ Q4FlowsOf(a) # {}
           /\ \A r \in Q4FlowsOf(a) : r.value = a.value - SumOf(q)
           /\ \E w \in warnings :
                /\ w.tag = a.tag /\ w.segment = a.segment
                /\ w.fiscal_year = Year(a.end_date) /\ w.have = Cardinality(q)

\* The store of the degraded scenario with Q1 from 1 January, and what
\* calculate_q4_data makes of it: 1000 - 210 with no warning.
DegradedScenarioNot790 ==
  ~ ( /\ Q4Done /\ version = "caterpillar"
      /\ ScenarioAnnual \in Raw
      /\ QuartersOf(ScenarioAnnual) = {DegradedQ1, DegradedQ2}
      /\ \E r \in Q4FlowsOf(ScenarioAnnual) : r.value = 790
      /\ warnings = {} )

\* The rows of df reached through another axis that repeat a row tagged directly
\* with the segment member: same tag, period and form.
SamePeriod(a, b) ==
  /\ a.tag = b.tag /\ a.form = b.form
  /\ a.start_date = b.start_date /\ a.end_date = b.end_date
  /\ a.instant_date = b.instant_date

DirectRows(member) ==
  {a \in Rows(df) : a.segment = member /\ a.form \in {"10-Q", "10-Q (Q4 Calculated)"}}

DuplicateRows(member) ==
  {b \in Rows(df) : /\ b.segment # member /\ b.business_segment = member
                    /\ \E a \in DirectRows(member) : SamePeriod(a, b)}

ShownAsReported(a) ==
  \/ a.tag \in InstantTags /\ a.instant_date # NaT
  \/ a.tag \notin InstantTags /\ a.form = "10-Q (Q4 Calculated)"
  \/ a.tag \notin InstantTags /\ SpansOneQuarter(a)

DateShown(a) == IF a.tag \in InstantTags THEN a.instant_date ELSE a.end_date

\* C10: when a tag and period is present both tagged directly with the segment
\* member and through another axis, create_segment_pivot shows the directly
\* tagged value in that cell, and the table is the one projected without the
\* duplicates.
C10_SegmentAxisWins ==
  (pc = "projected" /\ sheet \in SegmentMembers) =>
    /\ \A a \in DirectRows(sheet) :
         ( /\ ShownAsReported(a)
           /\ \E b \in DuplicateRows(sheet) : SamePeriod(a, b) ) =>
           /\ HasCell(a.tag, DateShown(a))
           /\ CellValue(a.tag, DateShown(a)) = a.value
    /\ pivot = CreateSegmentPivot(
                 SelectSeq(df, LAMBDA r : r \notin DuplicateRows(sheet)), sheet)

C10_Witness ==
  /\ pc = "projected" /\ sheet = CI
  /\ \E a \in DirectRows(CI) :
       /\ ShownAsReported(a)
       /\ \E b \in DuplicateRows(CI) : SamePeriod(a, b) /\ b.value # a.value
       /\ HasCell(a.tag, DateShown(a))

\* The cells of the projected table, and the statement line of a tag and segment.
CellValues ==
  UNION {{pivot.rows[k].cells[dt] : dt \in DOMAIN pivot.rows[k].cells} :
           k \in 1..Len(pivot.rows)}

StatementProjected(v) ==
  pc = "projected" /\ sheet \in StatementTypes /\ version = v

LineOf(r) ==
  IF r.tag = REV /\ r.segment = MET THEN "Revenues_MET"
  ELSE IF r.tag = REV /\ r.segment = CONS THEN "Revenues_Total"
  ELSE r.tag

\* No value of a raw 10-K duration fact is in a cell of the statement.
NoAnnualFlowShown ==
  \A a \in AnnualFlows : a.value \notin CellValues

\* The Q4 flow records are in the fiscal-year-end column of their line.
Q4FlowShown ==
  \A r \in Rows(df) :
    (r.form = "10-Q (Q4 Calculated)" /\ r.segment \in {CONS, MET}) =>
      HasCell(LineOf(r), r.end_date) /\ CellValue(LineOf(r), r.end_date) = r.value

\* The Q4 balance records are in the fiscal-year-end column of the balance sheet.
Q4BalanceShown ==
  \A r \in Rows(df) :
    (r.form = "10-K (Q4)" /\ r.segment = CONS) =>
      HasCell(LineOf(r), r.instant_date)
      /\ CellValue(LineOf(r), r.instant_date) = r.value

\* C11: the statement projection shows no value of a raw 10-K fact, and it
\* shows the synthesized Q4 records: the Q4 flow record in the fiscal-year-end
\* column of the income and cash-flow statements, the Q4 balance record in the
\* fiscal-year-end column of the balance sheet.
C11_QuarterRecordsOnly ==
  StatementProjected("caterpillar") =>
    /\ sheet \in {"income", "cashflow"} => NoAnnualFlowShown
    /\ sheet = "income" => Q4FlowShown
    /\ sheet = "balance" => Q4BalanceShown

\* The part of C11 the code keeps: everything but the balance sheet's Q4 column.
QuarterRecordsOnly_Flows ==
  StatementProjected("caterpillar") =>
    /\ sheet \in {"income", "cashflow"} => NoAnnualFlowShown
    /\ sheet = "income" => Q4FlowShown

IsDescending(columns) ==
  \A j, k \in 1..Len(columns) : j < k => columns[j] > columns[k]

\* A label that reads as year, month and day of the column's date.
IsDateLabel(label, dt) ==
  /\ label[2] \in 1..12 /\ label[3] \in 1..31
  /\ Date(label[1], label[2], label[3]) = dt

\* C13: the date columns of create_statement_pivot's table are ordered by
\* period end date descending (most recent first) and each is labelled with
\* its date as YYYY-MM-DD.
C13_ColumnsDescending ==
  (pc = "projected" /\ sheet \in StatementTypes /\ version \in {"caterpillar", "cat2"}) =>
    /\ IsDescending(pivot.columns)
    /\ Len(pivot.labels) = Len(pivot.columns)
    /\ \A k \in 1..Len(pivot.columns) : IsDateLabel(pivot.labels[k], pivot.columns[k])

\* The part of C13 the code keeps: the labels, and the order in cat2.py.
ColumnsLabelled ==
  (pc = "projected") =>
    /\ version = "cat2" => IsDescending(pivot.columns)
    /\ Len(pivot.labels) = Len(pivot.columns)
    /\ \A k \in 1..Len(pivot.columns) : IsDateLabel(pivot.labels[k], pivot.columns[k])

\* C14: whenever create_statement_pivot returns a non-empty table, the table
\* has one row for every line of the statement schema, in schema order; a line
\* with no resolved facts has its label and no data.
C14_UnresolvedLineRendered ==
  (StatementProjected("caterpillar") /\ pivot.rows # <<>>) =>
    /\ Len(pivot.rows) = Len(StatementItems(sheet))
    /\ \A k \in 1..Len(pivot.rows) :
         pivot.rows[k].Line_Item = StatementItems(sheet)[k].tag_key

\* The rows the cash-flow lines are resolved from, and the consolidated rows of
\* a tag among them.
CashflowFrame ==
  IF version = "final"
  THEN {r \in Rows(df) : r.end_date # NaT /\ r.form \in {"10-Q", "10-Q (Q4 Calculated)"}}
  ELSE Rows(StatementFiltered(version, df, "cashflow"))

CashflowRowsOf(tag) == {r \in CashflowFrame : r.tag = tag /\ r.segment = CONS}

\* The row of the line is made of values of the given tag only.
RowTakenFrom(line, tag) ==
  /\ \E k \in 1..Len(pivot.rows) : pivot.rows[k].Line_Item = line
  /\ \A k \in 1..Len(pivot.rows) :
       pivot.rows[k].Line_Item = line =>
         \A dt \in DOMAIN pivot.rows[k].cells :
           \E r \in CashflowRowsOf(tag) :
             r.end_date = dt /\ r.value = pivot.rows[k].cells[dt]

CandidatePriority ==
  /\ CashflowRowsOf(DDA) # {} => RowTakenFrom(DDA, DDA)
  /\ (CashflowRowsOf(DDA) = {} /\ CashflowRowsOf(DA) # {}) => RowTakenFrom(DDA, DA)
  /\ (CashflowRowsOf(DDA) # {} /\ CashflowRowsOf(DA) # {}) =>
       \A r \in CashflowRowsOf(DA) : r.value \notin CellValues

\* C12: a statement line takes its values from the first tag of its ordered
\* candidate list that has a fact for the requested segment; when two
\* candidates have facts, no value of the lower-priority one is in the row.
C12_CandidatePriority ==
  (pc = "projected" /\ sheet = "cashflow" /\ version \in {"caterpillar", "final"}) =>
    CandidatePriority

\* The part of C12 the code keeps: create_statement_pivot of caterpillar.py.
CandidatePriority_Caterpillar ==
  (pc = "projected" /\ sheet = "cashflow" /\ version = "caterpillar") =>
    CandidatePriority

CandidatePriority_CaterpillarReached ==
  ~ ( /\ pc = "projected" /\ sheet = "cashflow" /\ version = "caterpillar"
      /\ CashflowRowsOf(DDA) # {} /\ CashflowRowsOf(DA) # {} )

\* C15: a filing that cannot be retrieved or parsed is no data: it adds no
\* fact, the run goes on with the remaining filings instead of ending, and the
\* facts of the other filings are all in the result of extract_all_data.
C15_FailedFilingIsNoData ==
  /\ skipped \subseteq failing
  /\ Raw \cap failing = {}
  /\ skipped # {} => pc # "raised"
  /\ pc = "calculate_q4" => Rows(df) = Raw
  /\ pc = "done" => Raw = {}

C15_Witness ==
  /\ pc = "calculate_q4"
  /\ Cardinality(skipped) = 2
  /\ Cardinality(Rows(df)) = 3
  /\ skipped \cup Rows(df) = PoolNet

\* C16: every run terminates: export_to_excel eventually returns or raises,
\* also when the archive never answers a request.
C16_Terminates == <>(pc \in {"done", "projected", "raised"})

\* The members of a set of 10-Q facts that classify as year-to-date, and the
\* latest-dated fact of a set.
YtdMembers(S) == {r \in S : StartsFiscalYear(r)}

LatestOf(S) == CHOOSE r \in S : \A t \in S : t.end_date <= r.end_date

Q4Reads(a) == version = "caterpillar" \/ (version = "final" /\ a.segment = CONS)

\* C17: when a 10-Q fact of the group classifies as year-to-date, the value
\* subtracted from the annual total is that of the latest-dated fact that
\* classifies as year-to-date, also when a discrete fact with the same or a
\* later end date is in the group.
C17_YtdBaseline ==
  Q4Done =>
    \A a \in AnnualFlows :
      (Q4Reads(a) /\ YtdMembers(QuartersOf(a)) # {}) =>
        /\ Q4FlowsOf(a) # {}
        /\ \A r \in Q4FlowsOf(a) :
             r.value = a.value - LatestOf(YtdMembers(QuartersOf(a))).value

\* The part of C17 the code keeps: the same when no fact of the group that is
\* not year-to-date ends on or after the latest year-to-date fact.
YtdBaseline_LatestIsYtd ==
  Q4Done =>
    \A a \in AnnualFlows :
      ( /\ Q4Reads(a) /\ YtdMembers(QuartersOf(a)) # {}
        /\ \A t \in QuartersOf(a) \ YtdMembers(QuartersOf(a)) :
             t.end_date < LatestOf(YtdMembers(QuartersOf(a))).end_date ) =>
        /\ Q4FlowsOf(a) # {}
        /\ \A r \in Q4FlowsOf(a) :
             r.value = a.value - LatestOf(YtdMembers(QuartersOf(a))).value

\* The same quarter reported by two filings.
SameQuarter(r, t) ==
  /\ r.tag = t.tag /\ r.segment = t.segment /\ r.value = t.value
  /\ r.start_date = t.start_date /\ r.end_date = t.end_date

DistinctQuarters(S) == {<<r.start_date, r.end_date, r.value>> : r \in S}

RECURSIVE SumThird(_)
SumThird(T) == IF T = {} THEN 0 ELSE LET x == CHOOSE y \in T : TRUE
                                     IN x[3] + SumThird(T \ {x})

\* C18: a quarterly fact present more than once in the store, reported by
\* more than one filing, is counted once in the discrete path: Q4 is the annual
\* total minus the sum over the distinct quarters.
C18_NoDoubleCounting ==
  (Q4Done /\ version = "caterpillar") =>
    \A a \in AnnualFlows :
      LET q == QuartersOf(a)
      IN ( /\ \A r \in q : SpansOneQuarter(r) /\ ~StartsFiscalYear(r)
           /\ \E r, t \in q : r # t /\ SameQuarter(r, t) ) =>
           \A x \in Q4FlowsOf(a) : x.value = a.value - SumThird(DistinctQuarters(q))

\* The (tag, segment, business_segment, fiscal year) group of a raw 10-Q fact,
\* and the fact of the group that precedes it.
DiffGroup(r) ==
  {t \in Raw : /\ t.form = "10-Q" /\ t.end_date # NaT
               /\ t.tag = r.tag /\ t.segment = r.segment
               /\ t.business_segment = r.business_segment
               /\ Year(t.end_date) = Year(r.end_date)}

Earlier(r) == {t \in DiffGroup(r) : t.end_date < r.end_date}

Differenced(r) ==
  IF Earlier(r) = {} THEN r
  ELSE [r EXCEPT !.value = r.value - LatestOf(Earlier(r)).value]

OnePerPeriod(S) == \A r, t \in S : r # t => r.end_date # t.end_date

TwoPointQ1 == DurQ(DDA, 100, CONS, NA, Jan1, Mar31, 1)
TwoPointQ2 == DurQ(DDA, 250, CONS, NA, Jan1, Jun30, 2)

IsOther(r) ==
  /\ r.form = "10-Q" /\ r.start_date # NaT /\ r.end_date # NaT
  /\ ~SpansOneQuarter(r) /\ ~StartsFiscalYear(r)

\* C20: a duration fact that is neither a discrete quarter nor year-to-date is
\* never used as a discrete quarter: its value is not added into the sum of
\* quarters of calculate_q4_data, and the quarter extraction of the projection
\* does not show its value unchanged as a quarter's value.
C20_OtherNotDiscrete ==
  /\ (Q4Done /\ version = "caterpillar") =>
       \A a \in AnnualFlows :
         LET q == QuartersOf(a)
             others == {r \in q : IsOther(r)}
         IN ( /\ others # {}
              /\ YtdMembers(q) = {}
              /\ \A r, t \in q : r # t => ~SameQuarter(r, t) ) =>
              \A x \in Q4FlowsOf(a) : x.value = a.value - SumOf(q \ others)
  /\ (pc = "projected" /\ sheet = "cashflow" /\ version = "caterpillar") =>
       \A o \in Raw :
         (IsOther(o) /\ o.tag = DDA /\ o.segment = CONS) =>
           ~ (HasCell(DDA, o.end_date) /\ CellValue(DDA, o.end_date) = o.value)

\* The rows the lines of the projected statement are resolved in, the lines and
\* their candidate tags.
StatementDateCol == IF sheet = "balance" THEN "instant_date" ELSE "end_date"

StatementFrame ==
  IF version = "final"
  THEN {r \in Rows(df) : DateOf(StatementDateCol, r) # NaT /\ Contains10Q(r.form)}
  ELSE Rows(StatementFiltered(version, df, sheet))

LinesOf(v, statement_type) ==
  IF v = "final" THEN StatementItemsFinal(statement_type)
  ELSE StatementItems(statement_type)

CandidateSet(v, statement_type, base_key) ==
  LET cands == IF v = "final" THEN CandidateTagsFinal(statement_type, base_key)
               ELSE CandidateTagsOf(v, statement_type, base_key)
  IN {cands[i] : i \in 1..Len(cands)}

\* Every value the row of the line shows is the value of a fact of the set S
\* for the same period.
RowShowsOnly(line, S) ==
  \A k \in 1..Len(pivot.rows) :
    pivot.rows[k].Line_Item = line =>
      \A dt \in DOMAIN pivot.rows[k].cells :
        pivot.rows[k].cells[dt] # NaN =>
          \E r \in S : DateOf(StatementDateCol, r) = dt
                       /\ r.value = pivot.rows[k].cells[dt]

RowOfLine(line) == \E k \in 1..Len(pivot.rows) : pivot.rows[k].Line_Item = line

\* The tiers in order, for one line of the projected statement.
TiersInOrder(item) ==
  LET cands == CandidateSet(version, sheet, item.base_key)
      target == SegmentMap(item.segment_suffix)
      exact == {r \in StatementFrame : r.tag \in cands /\ r.segment = target}
      loose == {r \in StatementFrame :
                  r.tag \in cands /\ SegmentContains(r.segment, target)}
      byTag == {r \in StatementFrame : r.tag \in cands}
  IN /\ (item.segment_suffix # NoSuffix /\ exact # {}) =>
          RowShowsOnly(item.tag_key, exact)
     /\ (item.segment_suffix # NoSuffix /\ exact = {} /\ loose # {}) =>
          RowShowsOnly(item.tag_key, loose)
     /\ (byTag # {} \/ ~IsCfTotal(sheet, item.base_key)) =>
          RowShowsOnly(item.tag_key, byTag)

FallbackTiers ==
  (pc = "projected" /\ sheet \in StatementTypes) =>
    \A k \in 1..Len(LinesOf(version, sheet)) : TiersInOrder(LinesOf(version, sheet)[k])

\* C21: the fallback tiers of create_statement_pivot are tried in order: the
\* substring match on the segment label only when no candidate tag has a fact
\* with exactly the requested segment, the substring match on the concept name
\* only when the earlier tiers found nothing and the line is an operating,
\* investing or financing cash-flow total.
C21_FallbackTiers == FallbackTiers

\* The part of C21 the code keeps: caterpillar.py and cat2.py.
FallbackTiers_BeforeFinal == version # "final" => FallbackTiers

\* cat2.py reaches the concept tier for the operating cash-flow total.
ConceptTierNotReached ==
  ~ ( /\ pc = "projected" /\ sheet = "cashflow" /\ version = "cat2"
      /\ RowOfLine(NCO)
      /\ \A r \in StatementFrame : r.tag # NCO )

\* The substring tier on the segment label is reached.
SegmentTierNotReached ==
  ~ ( /\ pc = "projected" /\ sheet = "income"
      /\ RowOfLine("Revenues_MET")
      /\ \A r \in StatementFrame : r.segment = MET => r.tag \notin {REV, SRN} )

\* Facts that reconciliation cannot place: a 10-K fact with neither an instant
\* date nor an end date, a 10-Q fact without an end date.
Unplaced(r) ==
  \/ r.form = "10-K" /\ r.instant_date = NaT /\ r.end_date = NaT
  \/ r.form = "10-Q" /\ r.end_date = NaT

Placed(d) == SelectSeq(d, LAMBDA r : ~Unplaced(r))

Q4RowsOf(d) == {r \in Rows(d) : r.form \in {Q4BalanceForm, Q4FlowForm}}

\* The 10-Q facts with an end date in the fiscal year of the annual fact.
DatedQuartersOf(a) ==
  {r \in Raw : /\ r.form = "10-Q" /\ r.tag = a.tag /\ r.segment = a.segment
               /\ r.end_date # NaT /\ Year(r.end_date) = Year(a.end_date)
               /\ r.end_date <= a.end_date}

\* C22: facts with missing period data enter no group: the Q4 records are
\* those computed from the store without the 10-K facts that have neither an
\* instant nor an end date and without the 10-Q facts that have no end date;
\* a fact without a start or an end date is never year-to-date (a group whose
\* only facts starting on 1 January lack a date goes down the sum path); and the
\* normalization groups hold no fact without an end date.
C22_MissingPeriodData ==
  /\ (Q4Done /\ version = "caterpillar") =>
       /\ Q4RowsOf(df) =
            Q4RowsOf(CalculateQ4Data(version,
                                     Placed(ExtractAllDataFrame(version, all_facts))))
       /\ \A r \in Q4RowsOf(df) : r.end_date # NaT \/ r.instant_date # NaT
       /\ \A a \in AnnualFlows :
            (a.segment = CONS /\ DatedQuartersOf(a) # {}
               /\ \A t \in DatedQuartersOf(a) :
                    t.start_date = NaT \/ ~IsJan1(t.start_date)) =>
              \A x \in Q4RowsOf(df) :
                (x.tag = a.tag /\ x.segment = a.segment /\ x.end_date = a.end_date) =>
                  x.value = a.value - SumOf(DatedQuartersOf(a))
  /\ (pc = "projected" /\ sheet = "cashflow" /\ version = "caterpillar") =>
       /\ \A r \in NormalizedRows : r.end_date # NaT
       /\ Rows(StatementFiltered(version, df, "cashflow")) =
            Rows(StatementFiltered(version, Placed(df), "cashflow"))

C22_Witness ==
  /\ Q4Done /\ version = "caterpillar"
  /\ \E r \in Raw : r.form = "10-K" /\ Unplaced(r)
  /\ \E r \in Raw : r.form = "10-Q" /\ Unplaced(r) /\ r.tag = REV
  /\ \E r \in Raw : r.form = "10-Q" /\ r.start_date = NaT /\ r.end_date # NaT
  /\ \E x \in Q4RowsOf(df) : x.tag = REV /\ x.value = 590

\* The normalization meets a fact without an end date next to a year-to-date group.
UnplacedNotNormalized ==
  ~ ( /\ pc = "projected" /\ sheet = "cashflow" /\ version = "caterpillar"
      /\ \E r \in Raw : r.tag = DDA /\ Unplaced(r)
      /\ \E r \in NormalizedRows : r.tag = DDA /\ r.value = 150 )

\* Between two consecutive requests on the wire there is a pacing delay.
Paced(w) == \A i \in 1..(Len(w) - 1) : ~ (w[i] = "GET" /\ w[i + 1] = "GET")

\* C23: between any two consecutive HTTP requests of a run the pacing delay
\* elapses, whatever the outcome of the earlier request: success, a status
\* other than 200 for index.json followed by the request of the directory
\* listing, or an HTTP error followed by the next filing.
C23_RequestPacing == Paced(wire)

\* The part of C23 the code keeps: the delay when every request succeeds.
PacedWhenAllSucceed == (failing = {} /\ no_index = {}) => Paced(wire)

AllSucceedNotReached ==
  ~ (failing = {} /\ no_index = {} /\ Len(wire) > 1 /\ Len(all_facts) >= 2)

\* The final version's calculated Q4 rows are Consolidated; its segment
\* statements are resolved in a frame without calculated rows.
Q4OnlyConsolidated_Final ==
  (version = "final" /\ pc \in {"make_discrete", "project", "projected"}) =>
    /\ \A r \in Q4RowsOf(df) : r.segment = CONS
    /\ \A r \in Rows(SegmentStatementFilteredFinal(df)) : r.form # Q4FlowForm

\* C24: in the final version calculated rows exist only for Consolidated:
\* calculate_q4_data adds Q4 records only with segment Consolidated, the
\* discrete-quarter conversion changes the value of no record whose segment is
\* not Consolidated, and the segment statements hold no calculated Q4 row.
C24_ConsolidatedOnly ==
  /\ Q4OnlyConsolidated_Final
  /\ (version = "final" /\ pc \in {"project", "projected"}) =>
       \A t \in Rows(df) : (t.form = "10-Q" /\ t.segment # CONS) => t \in Raw

Q4OnlyConsolidated_FinalReached ==
  ~ ( /\ version = "final" /\ pc = "project"
      /\ Q4RowsOf(df) # {}
      /\ \E a \in Raw : a.form = "10-K" /\ a.segment # CONS )

\* The frame calculate_q4_data is given.
Q4Input == ExtractAllDataFrame(version, all_facts)

SameQ4Key(r, t) ==
  /\ r.tag = t.tag /\ r.segment = t.segment
  /\ r.business_segment = t.business_segment /\ r.form = t.form
  /\ r.end_date = t.end_date /\ r.instant_date = t.instant_date

\* C25: calculate_q4_data produces at most one synthesized Q4 flow record and
\* at most one synthesized Q4 balance record per (tag, segment,
\* business_segment, fiscal-year end), also when the annual fact is in the
\* store several times because a later 10-K repeats it as a comparative.
C25_OneQ4PerYear ==
  (Q4Done /\ version \in {"caterpillar", "cat2"}) =>
    \A i, j \in 1..Len(df) :
      ( /\ i # j
        /\ df[i].form \in {Q4BalanceForm, Q4FlowForm}
        /\ SameQ4Key(df[i], df[j]) ) => FALSE

\* A 10-K duration fact whose period is the whole fiscal year.
CoversFiscalYear(a) ==
  /\ a.form = "10-K" /\ a.start_date # NaT /\ a.end_date # NaT
  /\ IsJan1(a.start_date) /\ Year(a.start_date) = Year(a.end_date)

\* The Q4 flow records the annual facts of the set S give.
Q4FlowsFrom(S) ==
  UNION { Rows(Q4ForAnnual(version, Q4Input, a.tag, a.segment, a)) : a \in S }

\* C26: a '10-Q (Q4 Calculated)' record is derived only from a 10-K duration
\* fact that covers the whole fiscal year, never from a duration fact of a
\* shorter period that a 10-K reports.
C26_FullYearTotal ==
  (Q4Done /\ version = "caterpillar") =>
    \A x \in Rows(df) :
      x.form = Q4FlowForm => x \in Q4FlowsFrom({a \in Raw : CoversFiscalYear(a)})

\* The Q4 flow records are those the 10-K duration facts give, whatever their period.
Q4FromAnyDuration ==
  (Q4Done /\ version = "caterpillar") =>
    \A x \in Rows(df) :
      x.form = Q4FlowForm =>
        x \in Q4FlowsFrom({a \in Raw : a.form = "10-K" /\ a.end_date # NaT})

\* The store without the 10-Q facts of another business segment than B (or none).
OnlyBusinessSegment(d, B) ==
  SelectSeq(d, LAMBDA r : r.form # "10-Q" \/ r.business_segment = B)

Q4OfBusinessSegment(d, B) ==
  {r \in Rows(d) : r.form = Q4FlowForm /\ r.business_segment = B}

\* C27: for an annual fact that carries a business_segment B the Q4 value is
\* computed only from quarterly facts whose business_segment is B: the Q4
\* records of B are those computed from the store without the quarterly facts
\* of another business segment or of none.
C27_BusinessSegmentIsolation ==
  (Q4Done /\ version = "caterpillar") =>
    \A a \in Raw :
      (a.form = "10-K" /\ a.business_segment # NA) =>
        Q4OfBusinessSegment(df, a.business_segment) =
          Q4OfBusinessSegment(
            CalculateQ4Data(version, OnlyBusinessSegment(Q4Input, a.business_segment)),
            a.business_segment)

\* The part of C27 the code keeps: isolation when a quarterly fact of B exists.
BusinessSegmentIsolation_WhenReported ==
  (Q4Done /\ version = "caterpillar") =>
    \A a \in Raw :
      ( /\ a.form = "10-K" /\ a.business_segment # NA
        /\ \E r \in Raw : /\ r.form = "10-Q" /\ r.tag = a.tag
                          /\ r.segment = a.segment
                          /\ r.business_segment = a.business_segment ) =>
        Q4OfBusinessSegment(df, a.business_segment) =
          Q4OfBusinessSegment(
            CalculateQ4Data(version, OnlyBusinessSegment(Q4Input, a.business_segment)),
            a.business_segment)

BusinessSegmentIsolation_Reached ==
  ~ ( /\ Q4Done /\ version = "caterpillar"
      /\ \E x \in Rows(df) : x.form = Q4FlowForm /\ x.business_segment = CI
                             /\ x.value = 31
      /\ \E r \in Raw : r.form = "10-Q" /\ r.segment = OPSEG
                        /\ r.business_segment = NA )

\* The frame make_quarters_discrete is given in the final version, and the
\* number of times a row is in a frame.
DiscreteInput == CalculateQ4Data("final", Q4Input)

CountOf(d, r) == Cardinality({k \in 1..Len(d) : d[k] = r})

RealQuarter(r) == r.form = "10-Q" /\ r.end_date # NaT

\* The (tag, segment, year) group of a real 10-Q row has no year-to-date member.
GroupWithoutYtd(d, r) ==
  \A k \in 1..Len(d) :
    ( /\ RealQuarter(d[k]) /\ d[k].tag = r.tag /\ d[k].segment = r.segment
      /\ Year(d[k].end_date) = Year(r.end_date) ) => ~IsCalendarYtd(d[k])

\* The rows that are not real 10-Q rows pass through make_quarters_discrete.
OtherRowsUnchanged ==
  (version = "final" /\ pc \in {"project", "projected"}) =>
    /\ \A r \in Rows(DiscreteInput) :
         ~RealQuarter(r) => CountOf(df, r) = CountOf(DiscreteInput, r)
    /\ \A r \in Rows(df) : ~RealQuarter(r) => r \in Rows(DiscreteInput)

\* C28: make_quarters_discrete of the final version preserves the set of rows:
\* as many rows out as in, the rows that are not real 10-Q rows unchanged, and
\* the 10-Q rows of a group without a year-to-date member with their values,
\* each once.
C28_RowsPreserved ==
  /\ OtherRowsUnchanged
  /\ (version = "final" /\ pc \in {"project", "projected"}) =>
       /\ Len(df) = Len(DiscreteInput)
       /\ \A r \in Rows(DiscreteInput) :
            (RealQuarter(r) /\ GroupWithoutYtd(DiscreteInput, r)) =>
              CountOf(df, r) = CountOf(DiscreteInput, r)

OtherRowsUnchanged_Reached ==
  ~ ( /\ version = "final" /\ pc = "project"
      /\ \E r \in Rows(df) : r.form = Q4FlowForm
      /\ \E r \in Rows(df) : RealQuarter(r) /\ r \notin Rows(DiscreteInput) )

\* The flow rows create_segment_pivot hands to _extract_discrete_quarters for a
\* segment member: the 10-Q rows of the flow tags that have both dates.
SegmentFlowInput(member) ==
  SelectSeq(SegmentDeduplicated(df, member),
            LAMBDA r : /\ r.tag \notin InstantTags /\ r.form # Q4FlowForm
                       /\ r.start_date # NaT /\ r.end_date # NaT)

IsDiscretePeriod(r) == PeriodDays(r) <= DiscreteMaxDays

\* The discrete rows and the year-to-date rows of the tag of y that end in the
\* year of y before y does.
DiscreteBefore(q, y) ==
  {r \in Rows(q) : /\ IsDiscretePeriod(r) /\ r.tag = y.tag
                   /\ Year(r.end_date) = Year(y.end_date)
                   /\ r.end_date < y.end_date}

YtdBefore(q, y) ==
  {r \in Rows(q) : /\ ~IsDiscretePeriod(r) /\ r.tag = y.tag
                   /\ Year(r.end_date) = Year(y.end_date)
                   /\ r.end_date < y.end_date}

\* y is the only fact of its period, and a year-to-date one, while earlier
\* periods of the tag and year have discrete facts, one for each period.
YtdOnlyPeriod(q, y) ==
  /\ ~IsDiscretePeriod(y)
  /\ \A r \in Rows(q) : (r.tag = y.tag /\ r.end_date = y.end_date) => r = y
  /\ DiscreteBefore(q, y) # {}
  /\ \A a, b \in DiscreteBefore(q, y) : a.end_date = b.end_date => a = b

\* The values the cumulative total through the preceding period can be read as:
\* the sum of the discrete facts before y, or a year-to-date fact ending at the
\* preceding period.
CumulativeBefore(q, y) ==
  {SumOf(DiscreteBefore(q, y))}
    \cup {r.value : r \in {x \in YtdBefore(q, y) :
                             \A z \in YtdBefore(q, y) : z.end_date <= x.end_date}}

\* C29: a period of a segment sheet with only a year-to-date fact, next to
\* discrete facts of the other periods of the tag and year, is shown as the
\* year-to-date value minus the cumulative total through the preceding period,
\* never as the cumulative value itself.
C29_YtdOnlyPeriod ==
  (pc = "projected" /\ sheet \in SegmentMembers) =>
    \A y \in Rows(SegmentFlowInput(sheet)) :
      YtdOnlyPeriod(SegmentFlowInput(sheet), y) =>
        /\ HasCell(y.tag, y.end_date)
        /\ \E c \in CumulativeBefore(SegmentFlowInput(sheet), y) :
             CellValue(y.tag, y.end_date) = y.value - c

\* The period with only a year-to-date fact has a cell in the sheet.
YtdOnlyPeriodShown ==
  (pc = "projected" /\ sheet \in SegmentMembers) =>
    \A y \in Rows(SegmentFlowInput(sheet)) :
      YtdOnlyPeriod(SegmentFlowInput(sheet), y) => HasCell(y.tag, y.end_date)

YtdOnlyPeriodShown_Reached ==
  ~ ( /\ pc = "projected" /\ sheet \in SegmentMembers
      /\ \E y \in Rows(SegmentFlowInput(sheet)) :
           YtdOnlyPeriod(SegmentFlowInput(sheet), y) )

\* The same facts as the store, held in the opposite arrival order: the rows that
\* tie in the sort key of extract_all_data follow each other the other way round.
StoreReordered == StableSort(Reversed(all_facts), ExtractLt)

\* The sheet export_to_excel of caterpillar.py projects from a store.
ProjectionOf(store, sheet_name) ==
  LET d == CalculateQ4Data("caterpillar", ExtractAllDataFrame("caterpillar", store))
  IN IF sheet_name \in StatementTypes
     THEN CreateStatementPivot("caterpillar", d, sheet_name)
     ELSE CreateSegmentPivot(d, sheet_name)

\* The (line, period) cells of a table.
CellsOf(table) ==
  UNION {{<<table.rows[k].Line_Item, dt, table.rows[k].cells[dt]>> :
            dt \in DOMAIN table.rows[k].cells} : k \in 1..Len(table.rows)}

\* C30: the projected sheet is determined by the set of facts in the store: a
\* store that holds the same facts in another row order gives the same value in
\* every (line, period) cell of create_statement_pivot and create_segment_pivot.
C30_OrderIndependent ==
  (version = "caterpillar" /\ pc = "projected") =>
    CellsOf(ProjectionOf(StoreReordered, sheet)) = CellsOf(pivot)

\* The sheet is the projection of the store as it is held.
ProjectionOfStore ==
  (version = "caterpillar" /\ pc = "projected") =>
    pivot = ProjectionOf(all_facts, sheet)

\* Where no two facts match the same line and period, the order does not matter.
OneFactPerCell(store) ==
  \A i, j \in 1..Len(store) :
    ( /\ store[i].tag = store[j].tag
      /\ store[i].end_date = store[j].end_date
      /\ store[i].instant_date = store[j].instant_date ) => i = j

OrderIndependent_OneFactPerCell ==
  (version = "caterpillar" /\ pc = "projected" /\ OneFactPerCell(all_facts)) =>
    CellsOf(ProjectionOf(StoreReordered, sheet)) = CellsOf(pivot)

====
